---- MODULE Spec2Model ----
(***************************************************************************)
(* Model of the StockAnalystAi orchestration code.                         *)
(*                                                                         *)
(*   backend/api/openai_server.py   request handlers (streaming and        *)
(*                                  non-streaming), session_context cache  *)
(*   backend/src/graph.py           the LangGraph workflow definition      *)
(*   backend/src/data/tools/data_tools.py  subject resolution              *)
(*                                                                         *)
(* Text is modelled as a sequence of tokens.  A token is a record          *)
(* [t, k, n]: t is the kind of text, k the run that produced it (0 for     *)
(* fixed text), n a node name, ticker or marker.                           *)
(***************************************************************************)
EXTENDS Integers, Sequences, FiniteSets, TLC

VARIABLES
    nruns,            \* number of requests received so far
    session_context,  \* openai_server.session_context (process-wide cache)
    mongo_connected,  \* MongoDBClient.db is not None (fixed at start-up)
    enabled,          \* the handler coroutines that serve requests
    flow,             \* per handler: the code path it is executing
    pc,               \* per handler: index of the next instruction of the path
    st,               \* per handler: "idle", "ready", "waiting", "finished"
    req,              \* per handler: the request (stream flag, user message)
    ticker,           \* per handler: local variable ticker
    run,              \* per handler: identity of the run being served
    task,             \* per handler: executor tasks of this run, by node
    done_seq,         \* per handler: awaited tasks in order of completion
    err,              \* per handler: exception delivered to the await
    locals,           \* per handler: result variables of the handler
    report,           \* per handler: local variable report / response
    cursor,           \* per handler: loop variable i of the chunk loop
    prompt,           \* per handler: system_prompt given to the chat task
    events,           \* per handler: events yielded to the consumer
    response,         \* per handler: body returned by a non-streaming call
    ctx,              \* per handler: local variable ctx of the follow-up
    saved,            \* per handler: what became of the run's save request
    reordered,        \* per handler: did the tasks of the last gather
                      \*   complete in another order than its arguments
    before,           \* per handler: what the handler found when it started
    last_finished,    \* the request that finished most recently
    workflow,         \* graph.py: the StateGraph under construction
    app,              \* graph.py: the run of the compiled graph
    call,             \* a function of the program that is called on its
                      \*   own: its name, arguments and local variables
    pool              \* openai_server.executor: the work items that wait
                      \*   and those that run on a worker thread

hvars == <<flow, pc, st, req, ticker, run, task, done_seq, err, locals,
           report, cursor, prompt, events, response, ctx, saved, reordered,
           before>>
gvars == <<workflow, app, call, pool>>
\* the state of the server outside the handlers and the executor
cvars == <<nruns, session_context, mongo_connected, enabled, last_finished,
           workflow, app, call>>
svars == <<nruns, session_context, mongo_connected, enabled, last_finished,
           gvars>>
vars == <<svars, hvars>>

----------------------------------------------------------------------------
(* Bounds of the model.                                                    *)

MaxRuns == 3          \* requests received in one behaviour

Handlers == {"h1", "h2"}

\* str(e) of an exception raised inside a node: free text, unrelated to
\* the node that raised it
ErrMsgs == {"timeout", "bad value"}

----------------------------------------------------------------------------
(* Tokens.                                                                 *)

Tok(t, k, n) == [t |-> t, k |-> k, n |-> n]

NoneTok == Tok("none", 0, "")
None == "None"

\* Python truthiness of a str-or-None value
Truthy(s) == s # None /\ s # ""

\* the "report_section" of the result of node n in run k
Frag(k, n) == Tok("section", k, n)

\* the classification value ("decision", "sentiment") of node n in run k
Class(k, n) == Tok("class", k, n)

Fixed(n) == Tok("fixed", 0, n)

Range(s) == {s[i] : i \in DOMAIN s}

----------------------------------------------------------------------------
(* Subject resolution: data_tools.py.  A message is a sequence of          *)
(* upper-cased words.                                                      *)

Vocabulary == {"AAPL", "APPL", "MICROSOFT", "BTC", "RISK", "OK"}

WordLen(w) ==
    CASE w = "AAPL" -> 4
      [] w = "APPL" -> 4
      [] w = "MICROSOFT" -> 9
      [] w = "BTC" -> 3
      [] w = "RISK" -> 4
      [] w = "OK" -> 2
      [] OTHER -> 0

exclude_words == {"RISK", "OK"}
known_two_letter == {"GE", "GM", "HP", "AT", "LG", "BK"}

extract_company_names == [w \in {"MICROSOFT"} |-> "MSFT"]
extract_crypto_names == [w \in {} |-> ""]

\* ticker_pattern \b([A-Z]{2,5})\b followed by the filters of the loop
IsCandidate(w) ==
    /\ WordLen(w) >= 2 /\ WordLen(w) <= 5
    /\ w \notin exclude_words
    /\ ~(WordLen(w) = 2 /\ w \notin known_two_letter)

RECURSIVE FirstCandidate(_)
FirstCandidate(m) ==
    IF m = <<>> THEN None
    ELSE IF IsCandidate(Head(m)) THEN Head(m)
    ELSE FirstCandidate(Tail(m))

RECURSIVE FirstNamed(_, _)
FirstNamed(m, names) ==
    IF m = <<>> THEN None
    ELSE IF Head(m) \in DOMAIN names THEN names[Head(m)]
    ELSE FirstNamed(Tail(m), names)

extract_ticker(m) ==
    IF m = <<>> THEN None
    ELSE IF FirstCandidate(m) # None THEN FirstCandidate(m)
    ELSE IF FirstNamed(m, extract_company_names) # None
         THEN FirstNamed(m, extract_company_names)
    ELSE FirstNamed(m, extract_crypto_names)

normalize_company_names == [w \in {"MICROSOFT"} |-> "MSFT"]
corrections == [w \in {"APPL", "BTC"} |->
                   IF w = "APPL" THEN "AAPL" ELSE "BTC-USD"]

normalize_ticker(t) ==
    IF t \in DOMAIN normalize_company_names THEN normalize_company_names[t]
    ELSE IF t \in DOMAIN corrections THEN corrections[t]
    ELSE t

CRYPTO_SYMBOLS == {"BTC", "BTC-USD"}
EndsWithUSD(t) == t \in {"BTC-USD"}

is_crypto(t) ==
    IF ~Truthy(t) THEN FALSE
    ELSE t \in CRYPTO_SYMBOLS \/ EndsWithUSD(t)

\* the last user message of the requests that are tried
Messages == { <<"RISK", "AAPL">>, <<"MICROSOFT">>, <<"BTC">>, <<"RISK">> }

----------------------------------------------------------------------------
(* Nodes and the code paths of the handlers.                               *)

\* the five analysts, in the argument order of asyncio.gather
FanOut == <<"market_analyst", "fundamentals_analyst", "news_analyst",
            "social_analyst", "risk_analyst">>
FanOutVars == <<"market_result", "fundamentals_result", "news_result",
                "social_result", "risk_result">>

RiskChain == <<"risky_debator", "conservative_debator", "neutral_debator">>

StockNodes == Range(FanOut) \cup Range(RiskChain) \cup
    {"bull_researcher", "bear_researcher", "debate_moderator",
     "risk_judge", "portfolio_manager"}
CryptoNodes == {"crypto_analyst", "news_analyst", "social_analyst"}
Nodes == StockNodes \cup CryptoNodes \cup {"chat_agent"}

LocalVars == Range(FanOutVars) \cup
    {"bull_result", "bear_result", "decision", "risky_result",
     "conservative_result", "neutral_result", "risk_judgment", "pm_decision",
     "crypto_result", "response", "final_decision", "ticker"}

\* one instruction of a code path: op is the kind of statement, a the
\* marker of a progress chunk, nodes the tasks submitted to the executor,
\* args the result variables passed to them, vars the variables that
\* receive their results
Ins(op, a, nodes, args, vs) ==
    [op |-> op, a |-> a, nodes |-> nodes, args |-> args, vars |-> vs]

Y(a) == Ins("yield", a, <<>>, <<>>, <<>>)
Aw(nodes, args, vs) == Ins("await", "", nodes, args, vs)
Op(op) == Ins(op, "", <<>>, <<>>, <<>>)

\* the three data results every stock node receives
Data3 == <<"market_result", "fundamentals_result", "news_result">>

\* phases 2 to 5 of the stock analysis, shared by both handlers
bull_call == Aw(<<"bull_researcher">>, Data3, <<"bull_result">>)
bear_call == Aw(<<"bear_researcher">>, Data3 \o <<"risk_result">>,
                <<"bear_result">>)
moderate_call == Aw(<<"debate_moderator">>, <<"bull_result", "bear_result">>,
                    <<"decision">>)
risky_call == Aw(<<"risky_debator">>, Data3, <<"risky_result">>)
\* the conservative debator called without the argument of the risky one
conservative_call_blind == Aw(<<"conservative_debator">>,
                              Data3 \o <<"risk_result">>,
                              <<"conservative_result">>)

conservative_call == Aw(<<"conservative_debator">>,
                        Data3 \o <<"risk_result", "risky_result">>,
                        <<"conservative_result">>)
neutral_call == Aw(<<"neutral_debator">>,
                   Data3 \o <<"risky_result", "conservative_result">>,
                   <<"neutral_result">>)
judge_call == Aw(<<"risk_judge">>,
                 <<"risky_result", "conservative_result", "neutral_result">>,
                 <<"risk_judgment">>)
pm_call == Aw(<<"portfolio_manager">>,
              FanOutVars \o <<"bull_result", "bear_result", "decision",
                              "risk_judgment">>,
              <<"pm_decision">>)

\* stream_analysis, stock part
stream_analysis ==
    << Y("start"), Y("phase1"),
       Aw(FanOut, <<>>, FanOutVars),
       Y("phase1_done"), Y("phase2"),
       bull_call, bear_call,
       Y("phase2_done"), Y("phase3"),
       moderate_call,
       Y("phase3_done"), Y("phase4"),
       risky_call, conservative_call, neutral_call, judge_call,
       Y("phase4_done"), Y("phase5"),
       pm_call,
       Op("verdict"), Y("rule"),
       Op("chunks"), Op("save"), Op("done"), Op("except") >>

\* the crypto stream with the save moved in front of the report fragments
stream_crypto_analysis_saving_first ==
    << Y("crypto_start"), Y("crypto_phase1"),
       Aw(<<"crypto_analyst">>, <<>>, <<"crypto_result">>),
       Y("crypto_phase1_done"), Y("crypto_phase2"),
       Aw(<<"news_analyst">>, <<>>, <<"news_result">>),
       Y("crypto_phase2_done"), Y("crypto_phase3"),
       Aw(<<"social_analyst">>, <<>>, <<"social_result">>),
       Y("crypto_phase3_done"),
       Op("verdict"), Y("rule"),
       Op("save"), Op("chunks"), Op("done"), Op("except") >>

stream_crypto_analysis ==
    << Y("crypto_start"), Y("crypto_phase1"),
       Aw(<<"crypto_analyst">>, <<>>, <<"crypto_result">>),
       Y("crypto_phase1_done"), Y("crypto_phase2"),
       Aw(<<"news_analyst">>, <<>>, <<"news_result">>),
       Y("crypto_phase2_done"), Y("crypto_phase3"),
       Aw(<<"social_analyst">>, <<>>, <<"social_result">>),
       Y("crypto_phase3_done"),
       Op("verdict"), Y("rule"),
       Op("chunks"), Op("save"), Op("done"), Op("except") >>

\* a follow-up path that caches like an analysis run
stream_followup_chat_caching ==
    << Y("followup_intro"),
       Aw(<<"chat_agent">>, <<>>, <<"response">>),
       Op("chunks"), Op("save"), Op("done"), Op("except") >>

stream_followup_chat ==
    << Y("followup_intro"),
       Aw(<<"chat_agent">>, <<>>, <<"response">>),
       Op("chunks"), Op("done"), Op("except") >>

\* the branch of stream_analysis for a request without subject and an
\* empty cache
no_ticker_stream == << Y("no_ticker"), Op("done") >>

\* run_analysis (non-streaming)
run_analysis ==
    << Aw(<<"market_analyst">>, <<>>, <<"market_result">>),
       Aw(<<"fundamentals_analyst">>, <<>>, <<"fundamentals_result">>),
       Aw(<<"news_analyst">>, <<>>, <<"news_result">>),
       Aw(<<"social_analyst">>, <<>>, <<"social_result">>),
       Aw(<<"risk_analyst">>, <<>>, <<"risk_result">>),
       bull_call, bear_call, moderate_call,
       risky_call, conservative_call, neutral_call, judge_call,
       pm_call,
       Op("return"), Op("except") >>

Flows == {"stream_analysis", "stream_crypto_analysis", "stream_followup_chat",
          "no_ticker_stream", "run_analysis"}

Prog(f) ==
    CASE f = "stream_analysis" -> stream_analysis
      [] f = "stream_crypto_analysis" -> stream_crypto_analysis
      [] f = "stream_followup_chat" -> stream_followup_chat
      [] f = "no_ticker_stream" -> no_ticker_stream
      [] f = "run_analysis" -> run_analysis
      [] OTHER -> <<>>

At(f, op) == CHOOSE i \in DOMAIN Prog(f) : Prog(f)[i].op = op

\* chunk_size of the loop that streams the terminal content
report_chunk_size == 500
followup_chunk_size == 200
chunk_size(f) ==
    IF f = "stream_followup_chat" THEN followup_chunk_size
    ELSE report_chunk_size

----------------------------------------------------------------------------
(* Results, reports and the cache entry.                                   *)

\* the value of an agent object that answers for the request received last
ResultOfLatestRequest(k, n) == Tok("result", nruns, n)

\* the value returned by node n in run k (a dict with a report_section
\* and a classification)
Result(k, n) == Tok("result", k, n)

\* result.get("report_section", "") / safe_get(result, "report_section", "")
Section(r) == IF r = NoneTok THEN Fixed("") ELSE Frag(r.k, r.n)

\* pm_decision.get("decision", "HOLD")
Decision(r) == IF r = NoneTok THEN Fixed("HOLD") ELSE Class(r.k, r.n)

\* crypto_result.get("sentiment", "NEUTRAL")
Sentiment(r) == IF r = NoneTok THEN Fixed("NEUTRAL") ELSE Class(r.k, r.n)

Sep == Fixed("---")

build_report(tk, final_decision, market_result, fundamentals_result, news_result, social_result, risk_result, bull_result, bear_result, decision, pm_decision) ==
    << Tok("title", tk.k, tk.n), Tok("date", tk.k, ""),
       Tok("verdict_line", final_decision.k, final_decision.n),
       Sep, Section(market_result),
       Sep, Section(fundamentals_result),
       Sep, Section(news_result),
       Sep, Section(social_result),
       Sep, Section(risk_result),
       Sep, Section(bull_result),
       Sep, Section(bear_result),
       Sep, Section(decision),
       Sep, Section(pm_decision),
       Sep, Fixed("disclaimer_title"), Fixed("disclaimer") >>

\* a crypto report that opens with the disclaimer
build_crypto_report_disclaimer_first(tk, crypto_result, news_result, social_result) ==
    << Tok("crypto_title", tk.k, tk.n), Tok("date", tk.k, ""),
       Tok("signal_line", Sentiment(crypto_result).k, Sentiment(crypto_result).n),
       Sep, Fixed("disclaimer_title"), Fixed("crypto_warning"),
       Fixed("disclaimer"),
       Sep, Section(crypto_result),
       Sep, Section(news_result),
       Sep, Section(social_result) >>

build_crypto_report(tk, crypto_result, news_result, social_result) ==
    << Tok("crypto_title", tk.k, tk.n), Tok("date", tk.k, ""),
       Tok("signal_line", Sentiment(crypto_result).k, Sentiment(crypto_result).n),
       Sep, Section(crypto_result),
       Sep, Section(news_result),
       Sep, Section(social_result),
       Sep, Fixed("disclaimer_title"), Fixed("crypto_warning"),
       Fixed("disclaimer") >>

EmptyDict == [key \in {} |-> NoneTok]

Get(d, key, default) == IF key \in DOMAIN d THEN d[key] ELSE default

\* session_context["last_analysis_data"] as assigned by stream_analysis
stock_analysis_data(L) ==
    [key \in {"ticker", "decision", "market", "fundamentals", "news",
              "social", "risk", "bull", "bear", "debate", "pm_decision"} |->
        CASE key = "ticker" -> L["ticker"]
          [] key = "decision" -> L["final_decision"]
          [] key = "market" -> Section(L["market_result"])
          [] key = "fundamentals" -> Section(L["fundamentals_result"])
          [] key = "news" -> Section(L["news_result"])
          [] key = "social" -> Section(L["social_result"])
          [] key = "risk" -> Section(L["risk_result"])
          [] key = "bull" -> Section(L["bull_result"])
          [] key = "bear" -> Section(L["bear_result"])
          [] key = "debate" -> Section(L["decision"])
          [] key = "pm_decision" -> Section(L["pm_decision"])]

\* session_context["last_analysis_data"] as assigned by
\* stream_crypto_analysis
crypto_analysis_data(L) ==
    [key \in {"ticker", "decision", "asset_type", "market", "news",
              "social"} |->
        CASE key = "ticker" -> L["ticker"]
          [] key = "decision" -> L["final_decision"]
          [] key = "asset_type" -> Fixed("crypto")
          [] key = "market" -> Section(L["crypto_result"])
          [] key = "news" -> Section(L["news_result"])
          [] key = "social" -> Section(L["social_result"])]

\* dict.update: the keys of the old dict that the new one lacks survive
MergeData(old, new) ==
    [key \in DOMAIN old \cup DOMAIN new |->
        IF key \in DOMAIN new THEN new[key] ELSE old[key]]

\* the assignment of a new dict to session_context["last_analysis_data"]
AssignData(old, new) == new

save_context(f, tk, rep, L) ==
    [last_ticker |-> tk,
     last_report |-> rep,
     last_analysis_data |->
        AssignData(session_context.last_analysis_data,
                   IF f = "stream_crypto_analysis"
                   THEN crypto_analysis_data(L)
                   ELSE stock_analysis_data(L))]

\* context_summary / system_prompt of stream_followup_chat: the ticker,
\* the decision and seven extracts of ctx, each cut to a prefix
system_prompt(c) ==
    << Get(c, "ticker", Fixed("")), Fixed("instructions"),
       Get(c, "decision", Fixed("N/A")),
       Get(c, "market", Fixed("")), Get(c, "fundamentals", Fixed("")),
       Get(c, "news", Fixed("")), Get(c, "risk", Fixed("")),
       Get(c, "bull", Fixed("")), Get(c, "bear", Fixed("")),
       Get(c, "pm_decision", Fixed("")) >>

\* a cache test that holds of every dict: "if session_context:"
cache_dict_nonempty == TRUE

\* the cache test of stream_analysis
cache_nonempty ==
    Truthy(session_context.last_ticker) /\ session_context.last_report # <<>>

----------------------------------------------------------------------------
(* Events of a stream.                                                     *)

format_sse_chunk(content) == [kind |-> "chunk", content |-> content]
\* format_sse_done without the "data: [DONE]" line: only the finish chunk
format_sse_done_without_marker == [kind |-> "chunk", content |-> <<>>]

format_sse_done == [kind |-> "done", content |-> <<>>]

Min(a, b) == IF a < b THEN a ELSE b

\* a slice that stops one position before the end of the text
report_slice_dropping_last(text, i, size) ==
    SubSeq(text, i + 1, Min(i + size, Len(text) - 1))

\* text[i:i+chunk_size] of the delivery loops
report_slice(text, i, size) == SubSeq(text, i + 1, Min(i + size, Len(text)))

----------------------------------------------------------------------------
(* graph.py: the LangGraph workflow.  The module builds the graph         *)
(* statement by statement when it is imported and compiles it at its end.  *)

END == "__end__"

\* the keys of AgentState
Slots == {"ticker", "is_crypto", "market_data", "fundamentals_data",
          "news_data", "social_data", "risk_data", "crypto_data",
          "bull_analysis", "bear_analysis", "debate_outcome", "risk_judgment",
          "final_decision", "final_report"}

\* the keys of the dict a node function returns
Writes(fn) ==
    CASE fn = "analyze_market" -> {"market_data"}
      [] fn = "analyze_fundamentals" -> {"fundamentals_data"}
      [] fn = "analyze_news" -> {"news_data"}
      [] fn = "analyze_social" -> {"social_data"}
      [] fn = "analyze_risk" -> {"risk_data"}
      [] fn = "analyze_crypto" -> {"crypto_data"}
      [] fn = "conduct_research" -> {"bull_analysis", "bear_analysis"}
      [] fn = "moderate_debate" -> {"debate_outcome"}
      [] fn = "judge_risk" -> {"risk_judgment"}
      [] fn = "make_final_decision" -> {"final_decision"}
      [] fn = "build_report_node" -> {"final_report"}
      [] fn = "run_analysts_parallel" ->
            {"market_data", "fundamentals_data", "news_data", "social_data",
             "risk_data"}
      [] fn = "run_crypto_rest" -> {"news_data", "social_data"}
      [] fn = "build_crypto_report_node" -> {"final_report", "final_decision"}
      [] OTHER -> {}

\* where the agent methods called by a node function of the graph run:
\* conduct_research hands its two calls to asyncio.to_thread, the default
\* executor of the event loop; every other node function calls its agents
\* in the coroutine itself, on the thread of the event loop.  graph.py has
\* no ThreadPoolExecutor of its own and does not use that of the server.
RunsOn(fn) ==
    IF fn = "conduct_research" THEN "default_executor" ELSE "event_loop"

\* the node functions run_analysts_parallel gathers, in argument order
GatheredAnalyses == <<"analyze_market", "analyze_fundamentals",
                      "analyze_news", "analyze_social", "analyze_risk">>

route_start(is_crypto_value) ==
    IF is_crypto_value THEN "crypto_flow" ELSE "stock_flow"

route_start_v2(is_crypto_value) ==
    IF is_crypto_value THEN "crypto_analyst" ELSE "run_analysts_parallel"

\* the value a routing function returns
Route(fn, is_crypto_value) ==
    IF fn = "route_start" THEN route_start(is_crypto_value)
    ELSE route_start_v2(is_crypto_value)

\* the path map given with a routing function
PathMap(fn) ==
    IF fn = "route_start"
    THEN [k \in {"crypto_flow", "stock_flow"} |->
             IF k = "crypto_flow" THEN "crypto_analyst" ELSE "market_analyst"]
    ELSE [k \in {"crypto_analyst", "run_analysts_parallel"} |-> k]

\* the statements of graph.py that build the graph
Stmt(op, name, fn, to) == [op |-> op, name |-> name, fn |-> fn, to |-> to]
AddNode(name, fn) == Stmt("add_node", name, fn, "")
AddEdge(a, b) == Stmt("add_edge", a, "", b)
EntryPoint(fn) == Stmt("set_conditional_entry_point", "", fn, "")

graph_py ==
    << AddNode("market_analyst", "analyze_market"),
       AddNode("fundamentals_analyst", "analyze_fundamentals"),
       AddNode("news_analyst", "analyze_news"),
       AddNode("social_analyst", "analyze_social"),
       AddNode("risk_analyst", "analyze_risk"),
       AddNode("crypto_analyst", "analyze_crypto"),
       AddNode("researchers", "conduct_research"),
       AddNode("debate_moderator", "moderate_debate"),
       AddNode("risk_judge", "judge_risk"),
       AddNode("portfolio_manager", "make_final_decision"),
       AddNode("report_builder", "build_report_node"),
       EntryPoint("route_start"),
       AddEdge("market_analyst", "researchers"),
       AddEdge("fundamentals_analyst", "researchers"),
       AddEdge("news_analyst", "researchers"),
       AddEdge("social_analyst", "portfolio_manager"),
       AddNode("run_analysts_parallel", "run_analysts_parallel"),
       EntryPoint("route_start_v2"),
       AddEdge("run_analysts_parallel", "researchers"),
       AddEdge("run_analysts_parallel", "risk_judge"),
       AddEdge("researchers", "debate_moderator"),
       AddEdge("debate_moderator", "risk_judge"),
       AddEdge("risk_judge", "portfolio_manager"),
       AddEdge("portfolio_manager", "report_builder"),
       AddEdge("report_builder", END),
       AddNode("crypto_enrichment", "run_crypto_rest"),
       AddEdge("crypto_analyst", "crypto_enrichment"),
       AddNode("crypto_report", "build_crypto_report_node"),
       AddEdge("crypto_enrichment", "crypto_report"),
       AddEdge("crypto_report", END),
       Stmt("compile", "", "", "") >>

GraphNodes == {graph_py[i].name : i \in {j \in DOMAIN graph_py :
                                           graph_py[j].op = "add_node"}}

\* workflow = StateGraph(AgentState).  checks_reachability tells which
\* validation the installed langgraph applies in compile(): the early
\* releases refuse a node without incoming or without outgoing edge
StateGraph(checks_reachability) ==
    [pc |-> 1, nodes |-> {}, edges |-> {}, branches |-> {},
     compiled |-> "no", checks_reachability |-> checks_reachability]

NotImported == [StateGraph(FALSE) EXCEPT !.pc = 0]

\* the functions the nodes of the graph are made of
GraphFns == {graph_py[i].fn : i \in {j \in DOMAIN graph_py :
                                       graph_py[j].op = "add_node"}}

NoCalls == [fn \in GraphFns |-> 0]

\* a run of the compiled graph: the routing functions called at its start
\* (routed), the nodes of the current step, those that returned in it, the
\* nodes that returned in the run (executed) and how often each node
\* function was called in it (calls)
NotRunning ==
    [status |-> "none", n |-> 0, is_crypto |-> FALSE, routed |-> {},
     active |-> {}, returned |-> {}, gathered |-> {}, executed |-> {},
     calls |-> NoCalls, values |-> {}, error |-> "none"]

----------------------------------------------------------------------------
(* State of a handler.                                                     *)

NoTasks == [n \in Nodes |-> [s |-> "idle", c |-> 0]]
NoLocals == [v \in LocalVars |-> NoneTok]

\* session_context as the module creates it
EmptyCache == [last_ticker |-> None, last_report |-> <<>>,
               last_analysis_data |-> EmptyDict]

NoBefore == [last |-> [k |-> 0, kind |-> "none"], cached |-> None,
             entry |-> EmptyCache]

NoCall == [fn |-> "none"]

\* executor = ThreadPoolExecutor(max_workers=10)
max_workers == 10

\* the executor before the first submission
NoWork == [queue |-> <<>>, active |-> {}]

\* the server after start-up: no request yet, the cache empty
ServerStarted ==
    /\ nruns = 0
    /\ call = NoCall
    /\ pool = NoWork
    /\ session_context = EmptyCache
    /\ last_finished = [k |-> 0, kind |-> "none"]
    /\ flow = [h \in Handlers |-> "none"]
    /\ pc = [h \in Handlers |-> 0]
    /\ st = [h \in Handlers |-> "idle"]
    /\ req = [h \in Handlers |-> [stream |-> FALSE, msg |-> <<>>]]
    /\ ticker = [h \in Handlers |-> None]
    /\ run = [h \in Handlers |-> 0]
    /\ task = [h \in Handlers |-> NoTasks]
    /\ done_seq = [h \in Handlers |-> <<>>]
    /\ err = [h \in Handlers |-> None]
    /\ locals = [h \in Handlers |-> NoLocals]
    /\ report = [h \in Handlers |-> <<>>]
    /\ cursor = [h \in Handlers |-> 0]
    /\ prompt = [h \in Handlers |-> <<>>]
    /\ events = [h \in Handlers |-> <<>>]
    /\ response = [h \in Handlers |-> <<>>]
    /\ ctx = [h \in Handlers |-> EmptyDict]
    /\ saved = [h \in Handlers |-> "none"]
    /\ reordered = [h \in Handlers |-> FALSE]
    /\ before = [h \in Handlers |-> NoBefore]

\* openai_server.py does not import graph.py: while the server runs, the
\* graph is neither built nor run
Init ==
    /\ ServerStarted
    /\ enabled = {"h1"}
    /\ mongo_connected \in BOOLEAN
    /\ workflow = NotImported
    /\ app = NotRunning

\* the instruction a handler is about to execute
AtIns(h) == st[h] = "ready" /\ pc[h] \in DOMAIN Prog(flow[h])
Cur(h) == Prog(flow[h])[pc[h]]

\* how the request of handler h ended
Outcome(h) ==
    [k |-> run[h],
     kind |-> IF /\ err[h] = None
                 /\ flow[h] \in {"stream_analysis", "stream_crypto_analysis"}
              THEN "saved" ELSE "other"]

Resolved(h) == \A n \in Nodes : task[h][n].s # "running"

\* chat_completions: a request arrives; the last user message is m.  A
\* non-streaming request enters run_analysis at once.
accept(h, m, stream) ==
    /\ h \in enabled
    /\ st[h] \in {"idle", "finished"}
    /\ nruns < MaxRuns
    /\ nruns' = nruns + 1
    /\ run' = [run EXCEPT ![h] = nruns + 1]
    /\ req' = [req EXCEPT ![h] = [stream |-> stream, msg |-> m]]
    /\ task' = [task EXCEPT ![h] = NoTasks]
    /\ done_seq' = [done_seq EXCEPT ![h] = <<>>]
    /\ err' = [err EXCEPT ![h] = None]
    /\ report' = [report EXCEPT ![h] = <<>>]
    /\ cursor' = [cursor EXCEPT ![h] = 0]
    /\ prompt' = [prompt EXCEPT ![h] = <<>>]
    /\ events' = [events EXCEPT ![h] = <<>>]
    /\ ctx' = [ctx EXCEPT ![h] = EmptyDict]
    /\ saved' = [saved EXCEPT ![h] = "none"]
    /\ reordered' = [reordered EXCEPT ![h] = FALSE]
    /\ before' = [before EXCEPT ![h] =
                    [last |-> last_finished,
                     cached |-> session_context.last_ticker,
                     entry |-> session_context]]
    /\ LET t == extract_ticker(m) IN
       IF stream
       THEN /\ flow' = [flow EXCEPT ![h] = "stream_entry"]
            /\ ticker' = [ticker EXCEPT ![h] = t]
            /\ st' = [st EXCEPT ![h] = "ready"]
            /\ pc' = [pc EXCEPT ![h] = 0]
            /\ locals' = [locals EXCEPT ![h] = NoLocals]
            /\ response' = [response EXCEPT ![h] = <<>>]
            /\ UNCHANGED last_finished
       ELSE IF ~Truthy(t)
       THEN /\ flow' = [flow EXCEPT ![h] = "no_ticker_run"]
            /\ ticker' = [ticker EXCEPT ![h] = t]
            /\ st' = [st EXCEPT ![h] = "finished"]
            /\ pc' = [pc EXCEPT ![h] = 0]
            /\ locals' = [locals EXCEPT ![h] = NoLocals]
            /\ response' = [response EXCEPT ![h] = <<Fixed("no_ticker")>>]
            /\ last_finished' = [k |-> nruns + 1, kind |-> "other"]
       ELSE /\ flow' = [flow EXCEPT ![h] = "run_analysis"]
            /\ ticker' = [ticker EXCEPT ![h] = normalize_ticker(t)]
            /\ st' = [st EXCEPT ![h] = "ready"]
            /\ pc' = [pc EXCEPT ![h] = 1]
            /\ locals' = [locals EXCEPT ![h] =
                   [NoLocals EXCEPT !["ticker"] =
                       Tok("ticker", nruns + 1, normalize_ticker(t))]]
            /\ response' = [response EXCEPT ![h] = <<>>]
            /\ UNCHANGED last_finished
    /\ UNCHANGED <<session_context, mongo_connected, enabled, gvars>>

\* the next request of a client that waits until the node bodies of its
\* last run have ended
chat_completions(h, m, stream) == Resolved(h) /\ accept(h, m, stream)

\* stream_analysis up to its first yield: the choice of the code path
route(h) ==
    /\ st[h] = "ready" /\ flow[h] = "stream_entry"
    /\ pc' = [pc EXCEPT ![h] = 1]
    /\ before' = [before EXCEPT ![h] =
                    [last |-> last_finished,
                     cached |-> session_context.last_ticker,
                     entry |-> session_context]]
    /\ IF ~Truthy(ticker[h])
       THEN IF cache_nonempty
            THEN /\ flow' = [flow EXCEPT ![h] = "stream_followup_chat"]
                 /\ ctx' = [ctx EXCEPT ![h] =
                               session_context.last_analysis_data]
                 /\ locals' = [locals EXCEPT ![h]["ticker"] =
                       Get(session_context.last_analysis_data, "ticker",
                           Fixed(""))]
                 /\ UNCHANGED ticker
            ELSE /\ flow' = [flow EXCEPT ![h] = "no_ticker_stream"]
                 /\ UNCHANGED <<ctx, locals, ticker>>
       ELSE /\ ticker' = [ticker EXCEPT ![h] = normalize_ticker(ticker[h])]
            /\ flow' = [flow EXCEPT ![h] =
                   IF is_crypto(normalize_ticker(ticker[h]))
                   THEN "stream_crypto_analysis" ELSE "stream_analysis"]
            /\ locals' = [locals EXCEPT ![h]["ticker"] =
                   Tok("ticker", run[h], normalize_ticker(ticker[h]))]
            /\ UNCHANGED ctx
    /\ UNCHANGED <<svars, st, req, run, task, done_seq, err, report, cursor,
                   prompt, events, response, saved, reordered>>

\* the text of a progress chunk; three of them name the subject
Marker(h, a) ==
    IF a \in {"start", "crypto_start", "followup_intro"}
    THEN Tok(a, locals[h]["ticker"].k, locals[h]["ticker"].n)
    ELSE Fixed(a)

\* yield format_sse_chunk(<progress text>)
yield_chunk(h) ==
    /\ AtIns(h) /\ Cur(h).op = "yield"
    /\ events' = [events EXCEPT ![h] =
                    Append(@, format_sse_chunk(<<Marker(h, Cur(h).a)>>))]
    /\ pc' = [pc EXCEPT ![h] = @ + 1]
    /\ UNCHANGED <<svars, flow, st, req, ticker, run, task, done_seq, err,
                   locals, report, cursor, prompt, response, ctx, saved, reordered, before>>

\* final_decision = pm_decision.get("decision", "HOLD") (sentiment of the
\* crypto result in the crypto path) and the chunk that announces it
yield_verdict(h) ==
    /\ AtIns(h) /\ Cur(h).op = "verdict"
    /\ LET d == IF flow[h] = "stream_crypto_analysis"
                THEN Sentiment(locals[h]["crypto_result"])
                ELSE Decision(locals[h]["pm_decision"]) IN
       /\ locals' = [locals EXCEPT ![h]["final_decision"] = d]
       /\ events' = [events EXCEPT ![h] = Append(@, format_sse_chunk(
                         <<Tok("verdict", d.k, d.n)>>))]
    /\ pc' = [pc EXCEPT ![h] = @ + 1]
    /\ UNCHANGED <<svars, flow, st, req, ticker, run, task, done_seq, err,
                   report, cursor, prompt, response, ctx, saved, reordered, before>>

\* the report built from the handler's result variables, or the answer
\* of the chat task
BuiltReport(f, L) ==
    IF f = "stream_crypto_analysis"
    THEN build_crypto_report(L["ticker"], L["crypto_result"],
                             L["news_result"], L["social_result"])
    ELSE build_report(L["ticker"], L["final_decision"],
                      L["market_result"], L["fundamentals_result"],
                      L["news_result"], L["social_result"], L["risk_result"],
                      L["bull_result"], L["bear_result"], L["decision"],
                      L["pm_decision"])

TerminalText(h) ==
    IF flow[h] = "stream_followup_chat"
    THEN << Tok("answer", locals[h]["response"].k, locals[h]["response"].n) >>
    ELSE BuiltReport(flow[h], locals[h])

\* for i in range(0, len(report), chunk_size): yield report[i:i+chunk_size];
\* await asyncio.sleep(..)
stream_chunk(h) ==
    /\ AtIns(h) /\ Cur(h).op = "chunks"
    /\ LET text == TerminalText(h)
           size == chunk_size(flow[h]) IN
       IF cursor[h] < Len(text)
       THEN /\ events' = [events EXCEPT ![h] = Append(@, format_sse_chunk(
                    report_slice(text, cursor[h], size)))]
            /\ cursor' = [cursor EXCEPT ![h] = @ + size]
            /\ report' = [report EXCEPT ![h] = text]
            /\ UNCHANGED pc
       ELSE /\ pc' = [pc EXCEPT ![h] = @ + 1]
            /\ report' = [report EXCEPT ![h] = text]
            /\ UNCHANGED <<events, cursor>>
    /\ UNCHANGED <<svars, flow, st, req, ticker, run, task, done_seq, err,
                   locals, prompt, response, ctx, saved, reordered, before>>

\* MongoDBClient.save_analysis behind mongo.is_connected(): the insert may
\* fail, which is caught inside save_analysis
SaveAnalysis(h) ==
    IF mongo_connected
    THEN \E stored \in {"stored", "failed"} :
            saved' = [saved EXCEPT ![h] = stored]
    ELSE saved' = [saved EXCEPT ![h] = "skipped"]

\* a save_analysis without its try block: a failed insert raises
InsertErrorRaised(outcome) == outcome = "failed"

\* does the outcome of save_analysis raise in the caller: the insert runs
\* inside try/except Exception, and a disconnected store returns None
\* before it
Propagates(outcome) == FALSE

\* a store that keeps the entry it already has
StoreIfEmpty(old, new) == IF Truthy(old.last_ticker) THEN old ELSE new

\* a store that assigns last_ticker and last_report only
StoreWithoutData(old, new) ==
    [new EXCEPT !.last_analysis_data = old.last_analysis_data]

\* the three assignments to the keys of the module-level session_context
Store(old, new) == new

\* the end of the try block of a streaming run: save to MongoDB, then
\* overwrite session_context.  Nothing is awaited between the last
\* asyncio.sleep of the report loop and the yield of format_sse_done()
\* that follows the try block: the cache is written and the sentinel
\* yielded in one step of the event loop.
save(h) ==
    /\ AtIns(h) /\ Cur(h).op = "save"
    /\ SaveAnalysis(h)
    /\ IF Propagates(saved'[h])
       THEN /\ err' = [err EXCEPT ![h] = "timeout"]
            /\ pc' = [pc EXCEPT ![h] = At(flow[h], "except")]
            /\ UNCHANGED <<session_context, events, st, last_finished>>
       ELSE /\ session_context' =
                  Store(session_context,
                        save_context(flow[h], ticker[h], report[h],
                                     locals[h]))
            /\ pc' = [pc EXCEPT ![h] = @ + 1]
            /\ IF Prog(flow[h])[pc[h] + 1].op = "done"
               THEN /\ events' = [events EXCEPT ![h] =
                                    Append(@, format_sse_done)]
                    /\ st' = [st EXCEPT ![h] = "finished"]
                    /\ last_finished' = Outcome(h)
               ELSE UNCHANGED <<events, st, last_finished>>
            /\ UNCHANGED err
    /\ UNCHANGED <<gvars, nruns, mongo_connected, enabled, flow,
                   req, ticker, run, task, done_seq, locals, report,
                   cursor, prompt, response, ctx, reordered, before>>

\* yield format_sse_done(): the generator ends
done(h) ==
    /\ AtIns(h) /\ Cur(h).op = "done"
    /\ events' = [events EXCEPT ![h] = Append(@, format_sse_done)]
    /\ st' = [st EXCEPT ![h] = "finished"]
    /\ last_finished' = Outcome(h)
    /\ UNCHANGED <<gvars, nruns, session_context, mongo_connected, enabled, flow,
                   pc, req, ticker, run, task, done_seq, err, locals, report,
                   cursor, prompt, response, ctx, saved, reordered, before>>

\* a follow-up that reads the cache again when it builds its prompt
live_cache_data(h) == session_context.last_analysis_data

\* ctx of stream_followup_chat: the dict found in the cache when the
\* generator started
followup_ctx(h) == ctx[h]

\* loop.run_in_executor(executor, ...) for every task of the statement,
\* then the handler awaits them
run_in_executor(h) ==
    /\ AtIns(h) /\ Cur(h).op = "await"
    /\ task' = [task EXCEPT ![h] =
                  [n \in Nodes |->
                     IF n \in Range(Cur(h).nodes)
                     THEN [s |-> "running", c |-> task[h][n].c + 1]
                     ELSE task[h][n]]]
    /\ st' = [st EXCEPT ![h] = "waiting"]
    /\ done_seq' = [done_seq EXCEPT ![h] = <<>>]
    /\ prompt' = [prompt EXCEPT ![h] =
                    IF flow[h] = "stream_followup_chat"
                    THEN system_prompt(followup_ctx(h)) ELSE @]
    /\ UNCHANGED <<cvars, flow, pc, req, ticker, run, err, locals, report,
                   cursor, events, response, ctx, saved, reordered, before>>

\* the submission where no task has to wait for a worker thread
submit(h) == run_in_executor(h) /\ UNCHANGED pool

\* is the handler suspended in an await that covers the task of node n
Awaited(h, n) ==
    /\ st[h] = "waiting" /\ err[h] = None
    /\ n \in Range(Cur(h).nodes)

\* a node body ends on its worker thread.  While the handler awaits the
\* task, a return is recorded as "done".  Once the await has raised, the
\* handler never looks at the remaining tasks again: they run to their
\* end, returning or raising, and are recorded as "late".
returns(h, n) ==
    /\ task[h][n].s = "running"
    /\ task' = [task EXCEPT ![h][n].s =
                  IF Awaited(h, n) THEN "done" ELSE "late"]
    /\ done_seq' = [done_seq EXCEPT ![h] =
                      IF Awaited(h, n) THEN Append(@, n) ELSE @]
    /\ UNCHANGED <<cvars, flow, pc, st, req, ticker, run, err, locals,
                   report, cursor, prompt, events, response, ctx, saved,
                   reordered, before>>

complete(h, n) == returns(h, n) /\ UNCHANGED pool

\* a node body raises on its worker thread while the handler awaits it:
\* the first exception of the awaited tasks is the one the await raises
raises(h, n, msg) ==
    /\ task[h][n].s = "running"
    /\ Awaited(h, n)
    /\ task' = [task EXCEPT ![h][n].s = "failed"]
    /\ err' = [err EXCEPT ![h] = msg]
    /\ done_seq' = [done_seq EXCEPT ![h] = <<>>]
    /\ UNCHANGED <<cvars, flow, pc, st, req, ticker, run, locals,
                   report, cursor, prompt, events, response, ctx, saved,
                   reordered, before>>

fail(h, n, msg) == raises(h, n, msg) /\ UNCHANGED pool

\* results in the order in which the tasks completed
ResultsAsCompleted(k, nodes, completed) ==
    [i \in 1..Len(nodes) |-> Result(k, completed[i])]

\* an await that hands nothing to the variables it assigns
NoResults(k, nodes, completed) == [i \in 1..Len(nodes) |-> NoneTok]

\* the results asyncio.gather returns: one per awaited task, in the order
\* of its arguments
GatherResults(k, nodes, completed) ==
    [i \in 1..Len(nodes) |-> Result(k, nodes[i])]

\* an await that completes with the first task that returns
FirstDone(nodes, completed) == Len(completed) >= 1

\* asyncio.gather (and the await of a single future) completes when every
\* awaited task has returned
AllDone(nodes, completed) == Len(completed) = Len(nodes)

\* every awaited task has returned: the await yields the results
resume(h) ==
    /\ st[h] = "waiting" /\ err[h] = None
    /\ AllDone(Cur(h).nodes, done_seq[h])
    /\ reordered' = [reordered EXCEPT ![h] =
                       IF Len(Cur(h).nodes) > 1
                       THEN done_seq[h] # Cur(h).nodes ELSE @]
    /\ LET res == GatherResults(run[h], Cur(h).nodes, done_seq[h])
           vs == Cur(h).vars IN
       locals' = [locals EXCEPT ![h] =
                     [v \in LocalVars |->
                        IF \E i \in DOMAIN vs : vs[i] = v
                        THEN res[CHOOSE i \in DOMAIN vs : vs[i] = v]
                        ELSE locals[h][v]]]
    /\ st' = [st EXCEPT ![h] = "ready"]
    /\ pc' = [pc EXCEPT ![h] = @ + 1]
    /\ done_seq' = [done_seq EXCEPT ![h] = <<>>]
    /\ UNCHANGED <<svars, flow, req, ticker, run, task, err, report, cursor,
                   prompt, events, response, ctx, saved, before>>

\* an exception that is swallowed: control goes on with the next statement
NextStatement(f, i) == i + 1

\* where control goes when the statement at index i of path f raises:
\* every await of the handlers lies inside the try block
ExceptTarget(f, i) == At(f, "except")

\* the await raises: control moves to the except clause of the handler
raise(h) ==
    /\ st[h] = "waiting" /\ err[h] # None
    /\ st' = [st EXCEPT ![h] = "ready"]
    /\ pc' = [pc EXCEPT ![h] = ExceptTarget(flow[h], pc[h])]
    /\ UNCHANGED <<svars, flow, req, ticker, run, task, done_seq, err,
                   locals, report, cursor, prompt, events, response, ctx,
                   saved, reordered, before>>

\* the text of the failure fragment: the message of the exception only
FailureText(h) == << Tok("error", 0, err[h]) >>

\* an except clause that resets the cache
CacheClearedOnFailure(c) == EmptyCache

\* session_context after the except clause of a handler, which is found
\* as c: the clause assigns no key of it
CacheAfterFailure(c) == c

\* an except clause after which the report loop still runs
ReportAfterExcept(f) == At(f, "chunks")

\* the statement that follows the except clause of a streaming handler:
\* yield format_sse_done()
AfterExcept(f) == At(f, "done")

\* except Exception as e: a failure chunk (streaming) or the returned
\* error text (run_analysis)
except(h) ==
    /\ AtIns(h) /\ Cur(h).op = "except"
    /\ IF flow[h] = "run_analysis"
       THEN /\ response' = [response EXCEPT ![h] = FailureText(h)]
            /\ st' = [st EXCEPT ![h] = "finished"]
            /\ last_finished' = Outcome(h)
            /\ UNCHANGED <<events, pc>>
       ELSE /\ events' = [events EXCEPT ![h] =
                            Append(@, format_sse_chunk(FailureText(h)))]
            /\ pc' = [pc EXCEPT ![h] = AfterExcept(flow[h])]
            /\ UNCHANGED <<response, st, last_finished>>
    /\ session_context' = CacheAfterFailure(session_context)
    /\ UNCHANGED <<gvars, nruns, mongo_connected, enabled, flow,
                   req, ticker, run, task, done_seq, err, locals, report,
                   cursor, prompt, ctx, saved, reordered, before>>

\* the end of run_analysis: build the report, save it to MongoDB and
\* return it
return(h) ==
    /\ AtIns(h) /\ Cur(h).op = "return"
    /\ SaveAnalysis(h)
    /\ LET L == [locals[h] EXCEPT !["final_decision"] =
                    Decision(locals[h]["pm_decision"])] IN
       /\ locals' = [locals EXCEPT ![h] = L]
       /\ report' = [report EXCEPT ![h] = BuiltReport(flow[h], L)]
       /\ IF Propagates(saved'[h])
          THEN /\ err' = [err EXCEPT ![h] = "timeout"]
               /\ pc' = [pc EXCEPT ![h] = At(flow[h], "except")]
               /\ UNCHANGED <<response, st, last_finished>>
          ELSE /\ response' = [response EXCEPT ![h] = BuiltReport(flow[h], L)]
               /\ st' = [st EXCEPT ![h] = "finished"]
               /\ last_finished' = Outcome(h)
               /\ UNCHANGED <<err, pc>>
    /\ UNCHANGED <<gvars, nruns, session_context, mongo_connected, enabled, flow,
                   req, ticker, run, task, done_seq, cursor, prompt,
                   events, ctx, reordered, before>>

Next ==
    \/ \E h \in Handlers, m \in Messages, s \in BOOLEAN :
          chat_completions(h, m, s)
    \/ \E h \in Handlers : route(h)
    \/ \E h \in Handlers : yield_chunk(h)
    \/ \E h \in Handlers : yield_verdict(h)
    \/ \E h \in Handlers : stream_chunk(h)
    \/ \E h \in Handlers : save(h)
    \/ \E h \in Handlers : done(h)
    \/ \E h \in Handlers : submit(h)
    \/ \E h \in Handlers, n \in Nodes : complete(h, n)
    \/ \E h \in Handlers, n \in Nodes, msg \in ErrMsgs : fail(h, n, msg)
    \/ \E h \in Handlers : resume(h)
    \/ \E h \in Handlers : raise(h)
    \/ \E h \in Handlers : except(h)
    \/ \E h \in Handlers : return(h)

Spec == Init /\ [][Next]_vars

\* Two requests in flight at once.  chat_completions is a coroutine of
\* one event loop and session_context is one module-level dict: the
\* generators of two streaming requests interleave at their yields and
\* awaits.  Each connection sends one streaming request (a stock, a
\* crypto asset or no subject), every node returns, and MONGODB_URL is
\* not set.
ConcurrentMessages == { <<"RISK", "AAPL">>, <<"BTC">>, <<"RISK">> }

InitConcurrent ==
    /\ ServerStarted
    /\ enabled = Handlers
    /\ mongo_connected = FALSE
    /\ workflow = NotImported
    /\ app = NotRunning

first_request(h, m) == run[h] = 0 /\ chat_completions(h, m, TRUE)

NextConcurrent ==
    \/ \E h \in Handlers, m \in ConcurrentMessages : first_request(h, m)
    \/ \E h \in Handlers : route(h)
    \/ \E h \in Handlers : yield_chunk(h)
    \/ \E h \in Handlers : yield_verdict(h)
    \/ \E h \in Handlers : stream_chunk(h)
    \/ \E h \in Handlers : save(h)
    \/ \E h \in Handlers : done(h)
    \/ \E h \in Handlers : submit(h)
    \/ \E h \in Handlers, n \in Nodes : complete(h, n)
    \/ \E h \in Handlers : resume(h)

SpecConcurrent == InitConcurrent /\ [][NextConcurrent]_vars

\* A follow-up next to a run that overwrites the cache: a crypto stream
\* fills the cache; then the same client asks for another analysis while a
\* second client asks a question without subject.
request_in_turn(h, m) ==
    /\ \/ h = "h1" /\ nruns = 0 /\ m = <<"BTC">>
       \/ h = "h1" /\ run[h] = 1 /\ m \in {<<"BTC">>, <<"RISK", "AAPL">>}
       \/ h = "h2" /\ run[h] = 0 /\ cache_nonempty /\ m = <<"RISK">>
    /\ chat_completions(h, m, TRUE)

NextFollowUp ==
    \/ \E h \in Handlers, m \in ConcurrentMessages : request_in_turn(h, m)
    \/ \E h \in Handlers : route(h)
    \/ \E h \in Handlers : yield_chunk(h)
    \/ \E h \in Handlers : yield_verdict(h)
    \/ \E h \in Handlers : stream_chunk(h)
    \/ \E h \in Handlers : save(h)
    \/ \E h \in Handlers : done(h)
    \/ \E h \in Handlers : submit(h)
    \/ \E h \in Handlers, n \in Nodes : complete(h, n)
    \/ \E h \in Handlers : resume(h)

SpecFollowUp == InitConcurrent /\ [][NextFollowUp]_vars

----------------------------------------------------------------------------
(* The executor shared by the handlers: ThreadPoolExecutor(max_workers=10). *)
(* A submitted work item waits in the queue until one of the ten worker    *)
(* threads is free; a worker thread that has finished an item takes the    *)
(* next one.                                                               *)

\* the work item of the task of node n in the current run of h
WorkItem(h, n) == [h |-> h, n |-> n, k |-> run[h]]

\* executor.submit for the tasks of one statement, in the order of the
\* run_in_executor calls
Submitted(p, h, nodes) ==
    [p EXCEPT !.queue = @ \o [i \in 1..Len(nodes) |-> WorkItem(h, nodes[i])]]

\* the worker threads take the items at the head of the queue while one
\* of them is free
RECURSIVE Taken(_)
Taken(p) ==
    IF p.queue # <<>> /\ Cardinality(p.active) < max_workers
    THEN Taken([queue |-> Tail(p.queue),
                active |-> p.active \cup {Head(p.queue)}])
    ELSE p

\* a worker thread is done with an item
Released(p, item) == [p EXCEPT !.active = @ \ {item}]

\* a node body that returns only when no work waits behind it
WaitsForQueue(p, item) == p.queue = <<>>

\* the body of a node is one call of an agent method: it awaits no other
\* task and submits nothing to the executor
CanReturn(p, item) == TRUE

\* run_in_executor with the executor: the tasks are queued and the free
\* worker threads take them
executor_submit(h) ==
    /\ run_in_executor(h)
    /\ pool' = Taken(Submitted(pool, h, Cur(h).nodes))

\* a node body returns on its worker thread while its handler awaits it
worker_returns(h, n) ==
    /\ WorkItem(h, n) \in pool.active
    /\ Awaited(h, n)
    /\ CanReturn(pool, WorkItem(h, n))
    /\ returns(h, n)
    /\ pool' = Taken(Released(pool, WorkItem(h, n)))

\* a node body raises on its worker thread
worker_raises(h, n, msg) ==
    /\ WorkItem(h, n) \in pool.active
    /\ CanReturn(pool, WorkItem(h, n))
    /\ raises(h, n, msg)
    /\ pool' = Taken(Released(pool, WorkItem(h, n)))

\* the tasks on worker threads that no handler awaits any more: the await
\* of their gather has raised the exception of another task
Orphans ==
    {item \in pool.active :
        item.k # run[item.h] \/ ~Awaited(item.h, item.n)}

\* the order in which the tasks of the gathers were submitted
SubmittedBefore(a, b) ==
    \/ a.k < b.k
    \/ a.k = b.k /\ \A i, j \in DOMAIN FanOut :
                        FanOut[i] = a.n /\ FanOut[j] = b.n => i <= j

\* the body of a task that nobody awaits ends, returning or raising: its
\* outcome is dropped.  Which of these tasks ends first makes no
\* difference to any handler, and the model lets them end in the order of
\* submission.
orphan_returns(item) ==
    /\ item \in Orphans
    /\ \A o \in Orphans : SubmittedBefore(item, o)
    /\ CanReturn(pool, item)
    /\ pool' = Taken(Released(pool, item))
    /\ IF item.k = run[item.h]
       THEN returns(item.h, item.n)
       ELSE UNCHANGED <<cvars, hvars>>

\* Three stock analyses, each requested when the one before has ended: an
\* analysis may end with an exception of the market analyst, raised before
\* another analyst has returned; the other analysts of it are still
\* running on their worker threads then, and they keep running next to
\* the analyses that follow.
pool_request(h, m) ==
    /\ m = <<"RISK", "AAPL">>
    /\ \/ h = "h1" /\ nruns \in {0, 2}
       \/ h = "h2" /\ nruns = 1
    /\ \A g \in Handlers : st[g] \in {"idle", "finished"}
    /\ accept(h, m, TRUE)

NextPool ==
    \/ \E h \in Handlers, m \in ConcurrentMessages : pool_request(h, m)
    \/ \E h \in Handlers : route(h)
    \/ \E h \in Handlers : yield_chunk(h)
    \/ \E h \in Handlers : yield_verdict(h)
    \/ \E h \in Handlers : stream_chunk(h)
    \/ \E h \in Handlers : save(h)
    \/ \E h \in Handlers : done(h)
    \/ \E h \in Handlers : executor_submit(h)
    \/ \E h \in Handlers, n \in Nodes : worker_returns(h, n)
    \/ \E h \in Handlers :
          done_seq[h] = <<>> /\ worker_raises(h, "market_analyst", "timeout")
    \/ \E item \in pool.active : orphan_returns(item)
    \/ \E h \in Handlers : resume(h)
    \/ \E h \in Handlers : raise(h)
    \/ \E h \in Handlers : except(h)

\* the event loop runs every handler that can take a step, and every node
\* body that runs on a worker thread comes to its end
HandlerStep ==
    \E h \in Handlers :
        \/ route(h) \/ yield_chunk(h) \/ yield_verdict(h) \/ stream_chunk(h)
        \/ save(h) \/ done(h) \/ executor_submit(h) \/ resume(h) \/ raise(h) \/ except(h)

WorkerStep ==
    \/ \E h \in Handlers, n \in Nodes : worker_returns(h, n)
    \/ \E item \in pool.active : orphan_returns(item)

SpecPool ==
    /\ InitConcurrent /\ [][NextPool]_vars
    /\ WF_vars(HandlerStep) /\ WF_vars(WorkerStep)

\* a cancellation that stops the worker threads
TasksAborted(t) ==
    [n \in Nodes |-> IF t[n].s = "running" THEN [t[n] EXCEPT !.s = "aborted"]
                     ELSE t[n]]

\* the executor tasks of a generator that is cancelled: a function that
\* runs on a thread of the ThreadPoolExecutor cannot be interrupted, and
\* with five tasks at most on ten workers none is still queued
TasksAfterCancel(t) == t

\* the consumer of a stream goes away: the generator is closed at the
\* yield or await where it is suspended.  CancelledError and GeneratorExit
\* are no subclasses of Exception: the except clause does not run and
\* nothing more is yielded.
cancel(h) ==
    /\ flow[h] \in Flows \ {"run_analysis"}
    /\ st[h] \in {"ready", "waiting"}
    /\ st' = [st EXCEPT ![h] = "cancelled"]
    /\ task' = [task EXCEPT ![h] = TasksAfterCancel(@)]
    /\ UNCHANGED <<svars, flow, pc, req, ticker, run, done_seq, err, locals,
                   report, cursor, prompt, events, response, ctx, saved,
                   reordered, before>>

\* One streaming request whose consumer may stop reading at any point.
NextCancel ==
    \/ \E h \in Handlers, m \in Messages : first_request(h, m)
    \/ \E h \in Handlers : route(h)
    \/ \E h \in Handlers : yield_chunk(h)
    \/ \E h \in Handlers : yield_verdict(h)
    \/ \E h \in Handlers : stream_chunk(h)
    \/ \E h \in Handlers : save(h)
    \/ \E h \in Handlers : done(h)
    \/ \E h \in Handlers : submit(h)
    \/ \E h \in Handlers, n \in Nodes : complete(h, n)
    \/ \E h \in Handlers, n \in Nodes, msg \in ErrMsgs : fail(h, n, msg)
    \/ \E h \in Handlers : resume(h)
    \/ \E h \in Handlers : raise(h)
    \/ \E h \in Handlers : except(h)
    \/ \E h \in Handlers : cancel(h)

\* a node body that was started on a worker thread runs to its end
SpecCancel ==
    /\ Init /\ [][NextCancel]_vars
    /\ WF_vars(\E h \in Handlers, n \in Nodes : complete(h, n))

TypeOK ==
    /\ nruns \in 0..MaxRuns
    /\ \A h \in Handlers :
          st[h] \in {"idle", "ready", "waiting", "finished", "cancelled"}

----------------------------------------------------------------------------
(* graph.py: building the graph, and a run of the compiled graph.          *)

server_vars == <<nruns, session_context, mongo_connected, enabled,
                 last_finished, hvars, call, pool>>

NodeNames == {x.name : x \in workflow.nodes}
FnOf(n) == (CHOOSE x \in workflow.nodes : x.name = n).fn

\* the module is being imported and has not raised
Building == workflow.pc \in DOMAIN graph_py /\ workflow.compiled = "no"
GStmt == graph_py[workflow.pc]

\* workflow.add_node(name, fn): langgraph refuses a name that is taken;
\* what the function writes is not declared and not looked at
add_node ==
    /\ Building /\ GStmt.op = "add_node"
    /\ workflow' =
          IF GStmt.name \in NodeNames \cup {END}
          THEN [workflow EXCEPT !.compiled = "rejected"]
          ELSE [workflow EXCEPT
                   !.nodes = @ \cup {[name |-> GStmt.name, fn |-> GStmt.fn]},
                   !.pc = @ + 1]
    /\ UNCHANGED <<app, server_vars>>

\* workflow.set_conditional_entry_point(fn, path_map): a branch from START
\* stored under the name of fn; a second branch of another name is added
\* to the first
set_conditional_entry_point ==
    /\ Building /\ GStmt.op = "set_conditional_entry_point"
    /\ workflow' =
          IF GStmt.fn \in workflow.branches
          THEN [workflow EXCEPT !.compiled = "rejected"]
          ELSE [workflow EXCEPT !.branches = @ \cup {GStmt.fn},
                                !.pc = @ + 1]
    /\ UNCHANGED <<app, server_vars>>

\* workflow.add_edge(a, b)
add_edge ==
    /\ Building /\ GStmt.op = "add_edge"
    /\ workflow' =
          IF GStmt.name = END
          THEN [workflow EXCEPT !.compiled = "rejected"]
          ELSE [workflow EXCEPT !.edges = @ \cup {<<GStmt.name, GStmt.to>>},
                                !.pc = @ + 1]
    /\ UNCHANGED <<app, server_vars>>

\* the targets the branches from START can choose
BranchTargets ==
    UNION {{PathMap(fn)[k] : k \in DOMAIN PathMap(fn)} :
              fn \in workflow.branches}

\* the validation of compile(): edges and branches name known nodes and
\* there is an entry point; the early releases also want every node to
\* have an incoming and an outgoing edge
Valid ==
    /\ \A e \in workflow.edges :
          e[1] \in NodeNames /\ e[2] \in NodeNames \cup {END}
    /\ workflow.branches # {}
    /\ BranchTargets \subseteq NodeNames \cup {END}
    /\ workflow.checks_reachability =>
          \A n \in NodeNames :
              /\ n \in BranchTargets \/ \E e \in workflow.edges : e[2] = n
              /\ \E e \in workflow.edges : e[1] = n

\* app = workflow.compile()
compile ==
    /\ Building /\ GStmt.op = "compile"
    /\ workflow' = [workflow EXCEPT
                      !.compiled = IF Valid THEN "yes" ELSE "rejected",
                      !.pc = @ + 1]
    /\ UNCHANGED <<app, server_vars>>

MaxInvocations == 2   \* runs of the compiled graph in one behaviour

\* a caller runs app on {"ticker": .., "is_crypto": c}: every branch from
\* START chooses its target
ainvoke(c) ==
    /\ workflow.compiled = "yes"
    /\ app.status \in {"none", "done", "error"}
    /\ app.n < MaxInvocations
    /\ app' = [status |-> "running", n |-> app.n + 1, is_crypto |-> c,
               routed |-> workflow.branches,
               active |-> {PathMap(fn)[Route(fn, c)] :
                              fn \in workflow.branches},
               returned |-> {}, gathered |-> {}, executed |-> {},
               calls |-> NoCalls,
               values |-> {"ticker", "is_crypto"}, error |-> "none"]
    /\ UNCHANGED <<workflow, server_vars>>

Pending == IF app.status = "running" THEN app.active \ app.returned ELSE {}

\* run_analysts_parallel: one of the five gathered analyses returns
gather_one(a) ==
    /\ \E n \in Pending : FnOf(n) = "run_analysts_parallel"
    /\ a \in Range(GatheredAnalyses) \ app.gathered
    /\ app' = [app EXCEPT !.gathered = @ \cup {a},
                           !.calls[a] = @ + 1]
    /\ UNCHANGED <<workflow, server_vars>>

\* the function of an active node returns its dict
node_return(n) ==
    /\ n \in Pending
    /\ FnOf(n) = "run_analysts_parallel" =>
          app.gathered = Range(GatheredAnalyses)
    /\ app' = [app EXCEPT !.returned = @ \cup {n},
                           !.executed = @ \cup {n},
                           !.calls[FnOf(n)] = @ + 1]
    /\ UNCHANGED <<workflow, server_vars>>

\* the function of an active node raises: the run ends with its exception
node_raise(n) ==
    /\ n \in Pending
    /\ app' = [app EXCEPT !.status = "error", !.error = "node"]
    /\ UNCHANGED <<workflow, server_vars>>

\* the active nodes that returned a value for a slot
StepWriters(slot) == {n \in app.active : slot \in Writes(FnOf(n))}

\* the end of a step: every active node has returned.  The slots of
\* AgentState take one value per step (InvalidUpdateError otherwise); the
\* nodes at the end of the edges of the active nodes run next.
superstep ==
    /\ app.status = "running" /\ app.active # {}
    /\ app.active \subseteq app.returned
    /\ LET next == {e[2] : e \in {x \in workflow.edges : x[1] \in app.active}}
                      \ {END} IN
       app' =
          IF \E slot \in Slots : Cardinality(StepWriters(slot)) > 1
          THEN [app EXCEPT !.status = "error", !.error = "InvalidUpdateError"]
          ELSE [app EXCEPT
                  !.values = @ \cup UNION {Writes(FnOf(n)) : n \in app.active},
                  !.active = next, !.returned = {}, !.gathered = {},
                  !.status = IF next = {} THEN "done" ELSE "running"]
    /\ UNCHANGED <<workflow, server_vars>>

\* graph.py is imported, with either release of langgraph installed
InitGraph ==
    /\ ServerStarted
    /\ enabled = {}
    /\ mongo_connected = FALSE
    /\ workflow \in {StateGraph(b) : b \in BOOLEAN}
    /\ app = NotRunning

NextGraph ==
    \/ add_node
    \/ set_conditional_entry_point
    \/ add_edge
    \/ compile
    \/ \E c \in BOOLEAN : ainvoke(c)
    \/ \E a \in Range(GatheredAnalyses) : gather_one(a)
    \/ \E n \in GraphNodes : node_return(n)
    \/ \E n \in GraphNodes : node_raise(n)
    \/ superstep

SpecGraph == InitGraph /\ [][NextGraph]_vars

----------------------------------------------------------------------------
(* Properties of the request handlers.                                     *)

Streams == {"stream_analysis", "stream_crypto_analysis",
            "stream_followup_chat", "no_ticker_stream"}

\* the stream of handler h has been read to its end
StreamEnded(h) == flow[h] \in Streams /\ st[h] = "finished"

Sentinels(h) == {i \in DOMAIN events[h] : events[h][i].kind = "done"}

\* C1: every streaming response (stock run, crypto run, follow-up answer,
\* fixed message; successful or failed) that was read to its end holds the
\* terminal sentinel exactly once, as its last event; and at no moment is
\* an event found after a sentinel.
C1_SentinelOnceAndLast ==
    \A h \in Handlers :
        /\ Sentinels(h) \subseteq {Len(events[h])}
        /\ StreamEnded(h) => Sentinels(h) = {Len(events[h])}

\* a stock run in which an analyst raised has been read to its end
C1_Witness ==
    \E h \in Handlers :
        /\ StreamEnded(h) /\ flow[h] = "stream_analysis"
        /\ err[h] # None
        /\ Len(events[h]) > 3

GroupDependents == StockNodes \ Range(FanOut)

TaskResolved(h, n) == task[h][n].s \in {"done", "failed", "late"}

\* C2: in a stock run no node that depends on the five analysts is
\* dispatched before each of the five has resolved, whatever the order
\* in which they complete.
C2_JoinBeforeDependents ==
    \A h \in Handlers :
        flow[h] \in {"stream_analysis", "run_analysis"} =>
            \A n \in GroupDependents :
                task[h][n].c > 0 =>
                    \A m \in Range(FanOut) : TaskResolved(h, m)

\* the bull researcher runs after a gather whose tasks completed in
\* another order than they were submitted
C2_Witness ==
    \E h \in Handlers :
        /\ flow[h] = "stream_analysis"
        /\ reordered[h]
        /\ task[h]["bull_researcher"].s = "running"

Dispatches(h) == {n \in Nodes : task[h][n].c > 0}

\* the request of handler h is a streaming request without subject and
\* stream_analysis has chosen its path
UnresolvedStream(h) ==
    /\ req[h].stream /\ flow[h] \in Streams
    /\ ~Truthy(extract_ticker(req[h].msg))

\* C3: a streaming request without subject is answered by the follow-up
\* path when the cache is non-empty: one chat task, dispatched once, and
\* no analysis node; and by the fixed message when the cache is empty:
\* nothing is dispatched.
C3_UnresolvedRouting ==
    \A h \in Handlers :
        UnresolvedStream(h) =>
            IF Truthy(before[h].cached)
            THEN /\ flow[h] = "stream_followup_chat"
                 /\ Dispatches(h) \subseteq {"chat_agent"}
                 /\ task[h]["chat_agent"].c <= 1
                 /\ st[h] = "finished" => task[h]["chat_agent"].c = 1
            ELSE /\ flow[h] = "no_ticker_stream"
                 /\ Dispatches(h) = {}
                 /\ st[h] = "finished" =>
                       events[h] = << format_sse_chunk(<<Fixed("no_ticker")>>),
                                      format_sse_done >>

\* a follow-up answer has been streamed to its end
C3_Witness ==
    \E h \in Handlers :
        /\ UnresolvedStream(h) /\ Truthy(before[h].cached)
        /\ st[h] = "finished" /\ err[h] = None
        /\ task[h]["chat_agent"].s = "done"

\* the nodes whose sections a text holds, in the order of the text
RECURSIVE SectionNodes(_)
SectionNodes(text) ==
    IF text = <<>> THEN <<>>
    ELSE IF Head(text).t = "section"
         THEN <<Head(text).n>> \o SectionNodes(Tail(text))
         ELSE SectionNodes(Tail(text))

\* the layout of the aggregation step of a stock run
StockLayout == FanOut \o <<"bull_researcher", "bear_researcher",
                           "debate_moderator", "portfolio_manager">>

\* C4: the section order of the report of a stock run is the fixed layout
\* market, fundamentals, news, social, risk, bull, bear, moderator, final
\* decision, whatever the order in which the five analysts completed.
C4_SectionOrderFixed ==
    \A h \in Handlers :
        (flow[h] = "stream_analysis" /\ report[h] # <<>>) =>
            SectionNodes(report[h]) = StockLayout

\* a report was built after the analysts completed out of order
C4_Witness ==
    \E h \in Handlers :
        /\ flow[h] = "stream_analysis" /\ report[h] # <<>>
        /\ reordered[h]

\* the order of Scenario A: fan-out, advocates, synthesis, chain, judgment,
\* final decision
ScenarioA == FanOut \o <<"bull_researcher", "bear_researcher",
                         "debate_moderator">> \o RiskChain \o
             <<"risk_judge", "portfolio_manager">>

\* the stage of a node in Scenario A: the five analysts share stage 1
Stage(n) ==
    IF n \in Range(FanOut) THEN 1
    ELSE (CHOOSE i \in DOMAIN ScenarioA : ScenarioA[i] = n) - Len(FanOut) + 1

\* a stock run that ended without an exception
SuccessfulStockRun(h) ==
    /\ flow[h] \in {"stream_analysis", "run_analysis"}
    /\ st[h] = "finished" /\ err[h] = None

\* the nodes of a stock run execute in the order of Scenario A: a node is
\* dispatched only when every node of an earlier stage has returned
ExecutionFollowsScenarioA ==
    \A h \in Handlers :
        flow[h] \in {"stream_analysis", "run_analysis"} =>
            \A n \in StockNodes, m \in StockNodes :
                (task[h][n].c > 0 /\ Stage(m) < Stage(n)) =>
                    task[h][m].s = "done"

\* C5: in a successful stock run the nodes execute in the order of
\* Scenario A and the aggregated report holds their fragments in that order:
\* the five analysts, bull, bear, the moderator, the risky, conservative
\* and neutral debators, the judge, the final decision.
C5_ScenarioAOrder ==
    /\ ExecutionFollowsScenarioA
    /\ \A h \in Handlers :
          SuccessfulStockRun(h) => SectionNodes(report[h]) = ScenarioA

\* what the report of a successful stock run holds: the fragments of
\* Scenario A without those of the chain and of the judge, in its order
ReportOmitsRiskDebate ==
    \A h \in Handlers :
        SuccessfulStockRun(h) =>
            /\ SectionNodes(report[h]) = StockLayout
            /\ \A n \in Range(RiskChain) \cup {"risk_judge"} :
                  /\ task[h][n].s = "done"
                  /\ Frag(run[h], n) \notin Range(report[h])

\* C6: in a crypto run the crypto analyst runs first, then the news
\* analyst, then the social analyst; the report holds their fragments in
\* that order and ends with the fixed disclaimer.
C6_CryptoOrder ==
    \A h \in Handlers :
        flow[h] = "stream_crypto_analysis" =>
            /\ task[h]["news_analyst"].c > 0 =>
                  task[h]["crypto_analyst"].s = "done"
            /\ task[h]["social_analyst"].c > 0 =>
                  task[h]["news_analyst"].s = "done"
            /\ report[h] # <<>> =>
                  /\ SectionNodes(report[h]) =
                        <<"crypto_analyst", "news_analyst", "social_analyst">>
                  /\ Len(report[h]) >= 3
                  /\ SubSeq(report[h], Len(report[h]) - 2, Len(report[h])) =
                        << Fixed("disclaimer_title"), Fixed("crypto_warning"),
                           Fixed("disclaimer") >>
                  /\ \A i \in DOMAIN report[h] :
                        report[h][i].t = "section" => i < Len(report[h]) - 2

\* a crypto report has been streamed to its end
C6_Witness ==
    \E h \in Handlers :
        /\ flow[h] = "stream_crypto_analysis"
        /\ st[h] = "finished" /\ err[h] = None
        /\ report[h] # <<>>
        /\ task[h]["social_analyst"].s = "done"

\* the statement of path f that dispatches node n
InsOf(f, n) == CHOOSE i \in DOMAIN Prog(f) : n \in Range(Prog(f)[i].nodes)

\* <<n, v>>: node n of path f returns the value of result variable v
Produces(f) ==
    UNION {{<<Prog(f)[i].nodes[j], Prog(f)[i].vars[j]>> :
               j \in DOMAIN Prog(f)[i].vars} : i \in DOMAIN Prog(f)}

\* <<m, v>>: node m of path f is passed result variable v
Consumes(f) ==
    UNION {Range(Prog(f)[i].nodes) \X Range(Prog(f)[i].args) :
              i \in DOMAIN Prog(f)}

NodePairs == {<<n, m>> : n \in Nodes, m \in Nodes}

\* <<n, m>>: the result of node n is passed to node m
Feeds(f) ==
    LET P == Produces(f)
        C == Consumes(f)
    IN {e \in NodePairs :
           \E v \in LocalVars : <<e[1], v>> \in P /\ <<e[2], v>> \in C}

\* R with every pair that two of its pairs connect
Squared(R) ==
    {e \in NodePairs :
        e \in R \/ \E x \in Nodes : <<e[1], x>> \in R /\ <<x, e[2]>> \in R}

\* four squarings connect every path of up to sixteen steps, more than
\* a relation on Nodes can hold without a cycle
TransitiveClosure(R) ==
    LET R2 == Squared(R)
        R4 == Squared(R2)
        R8 == Squared(R4)
    IN Squared(R8)

\* <<n, m>>: node m consumes, directly or transitively, the output of n
Dependents ==
    [stream_analysis |-> TransitiveClosure(Feeds("stream_analysis")),
     stream_crypto_analysis |->
        TransitiveClosure(Feeds("stream_crypto_analysis")),
     stream_followup_chat |-> TransitiveClosure(Feeds("stream_followup_chat")),
     no_ticker_stream |-> TransitiveClosure(Feeds("no_ticker_stream")),
     run_analysis |-> TransitiveClosure(Feeds("run_analysis"))]

\* the texts that were delivered for the request of handler h
Delivered(h) ==
    UNION {Range(events[h][i].content) : i \in DOMAIN events[h]}
        \cup Range(response[h])

\* C7: when a node raises, no node that consumes its output, directly or
\* transitively, is dispatched in that run, and no statement after the
\* failing one dispatches anything; the aggregation does not run: no
\* report is built, delivered, saved or cached.  In particular after a
\* failed analyst no researcher, moderator, debator, judge or portfolio
\* manager runs.
C7_NoDependentAfterFailure ==
    \A h \in Handlers : \A n \in Nodes :
        (flow[h] \in Flows /\ task[h][n].s = "failed") =>
            /\ \A m \in Nodes :
                  task[h][m].c > 0 => <<n, m>> \notin Dependents[flow[h]]
            /\ \A m \in Nodes :
                  task[h][m].c > 0 => InsOf(flow[h], m) <= InsOf(flow[h], n)
            /\ n \in Range(FanOut) /\ flow[h] = "stream_analysis" =>
                  \A m \in GroupDependents : task[h][m].c = 0
            /\ report[h] = <<>> /\ saved[h] = "none"
            /\ \A x \in Delivered(h) : x.t # "section"
            /\ \A x \in Range(session_context.last_report) : x.k # run[h]

\* a stock run ended after one analyst raised while a sibling had returned
\* and another was still running
C7_Witness ==
    \E h \in Handlers : \E n \in Range(FanOut), m \in Range(FanOut),
                           l \in Range(FanOut) :
        /\ flow[h] = "stream_analysis" /\ st[h] = "finished"
        /\ task[h][n].s = "failed"
        /\ task[h][m].s = "done"
        /\ task[h][l].s = "late"

\* C8: when one analyst of the fan-out raises after the other four have
\* returned, the failure event names the failing node and holds the
\* results of the four.
C8_FailurePayload ==
    \A h \in Handlers : \A n \in Range(FanOut) :
        ( /\ flow[h] = "stream_analysis" /\ st[h] = "finished"
          /\ task[h][n].s = "failed"
          /\ \A m \in Range(FanOut) \ {n} : task[h][m].s = "done" ) =>
            \E i \in DOMAIN events[h] :
                /\ \E x \in Range(events[h][i].content) :
                      x.t = "error" /\ x.n = n
                /\ \A m \in Range(FanOut) \ {n} :
                      \E x \in Range(events[h][i].content) :
                          x.k = run[h] /\ x.n = m

\* what the failure event of a stream holds: the message of the exception
FailureEventIsMessageOnly ==
    \A h \in Handlers :
        (flow[h] \in Streams /\ st[h] = "finished" /\ err[h] # None) =>
            /\ events[h][Len(events[h]) - 1] =
                  format_sse_chunk(<< Tok("error", 0, err[h]) >>)
            /\ \A x \in Delivered(h) : x.t \notin {"section", "result"}

\* a streaming analysis run (stock or crypto) that ended successfully
SuccessfulStream(h) ==
    /\ flow[h] \in {"stream_analysis", "stream_crypto_analysis"}
    /\ st[h] = "finished" /\ err[h] = None

\* the keys of last_analysis_data that a run of path f writes
DataKeys(f) ==
    IF f = "stream_crypto_analysis"
    THEN {"ticker", "decision", "asset_type", "market", "news", "social"}
    ELSE {"ticker", "decision", "market", "fundamentals", "news", "social",
          "risk", "bull", "bear", "debate", "pm_decision"}

\* every piece of a text is fixed text or was produced by run k
OnlyFrom(k, texts) == \A x \in texts : x.k \in {0, k}

----------------------------------------------------------------------------
(* Properties of the graph.                                                *)

\* the nodes of the graph whose function writes a slot
SlotProducers(slot) ==
    {x.name : x \in {y \in workflow.nodes : slot \in Writes(y.fn)}}

\* C10: a graph in which two nodes produce the same slot is rejected when
\* it is built: no such graph is ever compiled, and none is ever run.
C10_DuplicateProducerRejected ==
    (workflow.compiled = "yes" \/ app.status # "none") =>
        \A slot \in Slots : Cardinality(SlotProducers(slot)) <= 1

\* what graph.py builds: seven slots with two or three producers each
SharedSlots ==
    {slot \in Slots : Cardinality(SlotProducers(slot)) > 1}

\* a slot is shared by the time its second producer is added, and no
\* statement of the module refuses it
SharedSlotsAccepted ==
    workflow.compiled = "yes" =>
        SharedSlots = {"market_data", "fundamentals_data", "news_data",
                       "social_data", "risk_data", "final_decision",
                       "final_report"}

\* the runs of the compiled graph: a crypto run reaches its report with
\* news_data and social_data written by crypto_enrichment; a stock run
\* starts market_analyst and run_analysts_parallel in one step and never
\* gets past it
GraphRunOutcomes ==
    /\ app.status = "done" =>
          /\ app.is_crypto
          /\ {"crypto_data", "news_data", "social_data", "final_report",
              "final_decision"} \subseteq app.values
    /\ (app.status # "none" /\ ~app.is_crypto) =>
          /\ app.active = {"market_analyst", "run_analysts_parallel"}
          /\ app.error = "InvalidUpdateError" =>
                app.returned = app.active

----------------------------------------------------------------------------
(* Failures of a streaming run.                                            *)

FailableStreams == {"stream_analysis", "stream_crypto_analysis",
                    "stream_followup_chat"}

IsYield(ins) == ins.op = "yield"

\* the await of handler h that raised
FailedAt(h) ==
    CHOOSE i \in DOMAIN Prog(flow[h]) :
        /\ Prog(flow[h])[i].op = "await"
        /\ \E n \in Range(Prog(flow[h])[i].nodes) : task[h][n].s = "failed"

\* the progress chunks of the yield statements that precede statement p
StreamedBefore(h, p) ==
    LET ys == SelectSeq(SubSeq(Prog(flow[h]), 1, p - 1), IsYield) IN
    [i \in 1..Len(ys) |-> format_sse_chunk(<<Marker(h, ys[i].a)>>)]

\* C11: in a streaming run in which a node fails, the caller receives the
\* content streamed before the failure, unchanged, then exactly one
\* failure fragment, then the terminal sentinel; nothing else follows the
\* failure fragment.
C11_FailureEndsStream ==
    \A h \in Handlers :
        (flow[h] \in FailableStreams /\ err[h] # None) =>
            LET streamed == StreamedBefore(h, FailedAt(h))
                failure == format_sse_chunk(FailureText(h)) IN
            /\ events[h] \in {streamed, streamed \o <<failure>>,
                              streamed \o <<failure, format_sse_done>>}
            /\ st[h] = "finished" =>
                  events[h] = streamed \o <<failure, format_sse_done>>

\* a stock run has failed in its third phase, after six progress chunks,
\* and its stream has ended
C11_Witness ==
    \E h \in Handlers :
        /\ flow[h] = "stream_analysis" /\ st[h] = "finished"
        /\ task[h]["debate_moderator"].s = "failed"
        /\ Len(events[h]) = 8

----------------------------------------------------------------------------
(* Concurrent runs and the cache.                                          *)

SavingStreams == {"stream_analysis", "stream_crypto_analysis"}

\* the run of handler h has ended without exception and has written the
\* cache
Succeeded(h) ==
    /\ flow[h] \in SavingStreams /\ st[h] = "finished" /\ err[h] = None

\* the cache entry that the run of handler h writes
EntryOf(h) == save_context(flow[h], ticker[h], report[h], locals[h])

\* the run of g was routed before any run had finished, and the run of h
\* too: the two runs overlap
Overlap(h, g) ==
    /\ h # g /\ run[h] > 0 /\ run[g] > 0
    /\ before[h].last.k = 0 /\ before[g].last.k = 0

\* C12: when two concurrent runs have both succeeded, the cache holds the
\* entry of the one that finished later.
C12_LastWriteWins ==
    \A h \in Handlers, g \in Handlers :
        ( /\ Overlap(h, g) /\ Succeeded(h) /\ Succeeded(g)
          /\ last_finished.k = run[h] ) =>
            session_context = EntryOf(h)

\* a stock run and a crypto run that overlap have both succeeded and the
\* one that started first has finished last
C12_Witness ==
    \E h \in Handlers, g \in Handlers :
        /\ Overlap(h, g) /\ Succeeded(h) /\ Succeeded(g)
        /\ run[h] < run[g] /\ last_finished.k = run[h]
        /\ flow[h] = "stream_analysis" /\ flow[g] = "stream_crypto_analysis"

----------------------------------------------------------------------------
(* Successful runs and the cache.                                          *)

\* the run of handler h, streaming or not, has ended without exception
RunSucceeded(h) ==
    /\ flow[h] \in SavingStreams \cup {"run_analysis"}
    /\ st[h] = "finished" /\ err[h] = None

\* C13: every successful run, streaming or non-streaming, overwrites the
\* whole cache entry with its own subject, report text and extracts.
C13_SuccessOverwritesCache ==
    \A h \in enabled :
        RunSucceeded(h) =>
            /\ session_context.last_ticker = ticker[h]
            /\ session_context.last_report = report[h]
            /\ session_context.last_analysis_data =
                   stock_analysis_data(locals[h])
                   \/ session_context.last_analysis_data =
                          crypto_analysis_data(locals[h])

\* what the code does: a successful streaming run leaves its entry in the
\* cache, a successful run of run_analysis leaves the cache as it found it
OnlyStreamsOverwriteCache ==
    \A h \in enabled :
        /\ Succeeded(h) => session_context = EntryOf(h)
        /\ (flow[h] = "run_analysis" /\ st[h] = "finished") =>
              session_context = before[h].entry

----------------------------------------------------------------------------
(* Non-streaming requests without subject.                                 *)

\* the non-streaming request of handler h named no subject and has been
\* answered
UnresolvedAnswered(h) ==
    /\ run[h] > 0 /\ ~req[h].stream /\ st[h] = "finished"
    /\ ~Truthy(extract_ticker(req[h].msg))

\* the cache test of stream_analysis, on the entry found at the request
WasCached(h) ==
    /\ Truthy(before[h].entry.last_ticker)
    /\ before[h].entry.last_report # <<>>

\* C14: a non-streaming request without subject is answered, when the
\* cache is non-empty, by the one follow-up task, whose whole output is
\* the response; the fixed message is returned only when the cache is
\* empty.
C14_NonStreamingFollowUp ==
    \A h \in enabled :
        UnresolvedAnswered(h) =>
            IF WasCached(h)
            THEN /\ Dispatches(h) = {"chat_agent"}
                 /\ response[h] = << Tok("answer", run[h], "chat_agent") >>
            ELSE response[h] = << Fixed("no_ticker") >>

\* what the code does: run_analysis returns the fixed message for every
\* request without subject and dispatches nothing, whatever the cache holds
NonStreamingAlwaysFixedMessage ==
    \A h \in enabled :
        UnresolvedAnswered(h) =>
            /\ Dispatches(h) = {}
            /\ response[h] = << Fixed("no_ticker") >>
            /\ session_context = before[h].entry

----------------------------------------------------------------------------
(* Non-streaming against streaming execution.                              *)

\* the code path stream_analysis takes for a normalized subject
StreamPath(tk) ==
    IF is_crypto(tk) THEN "stream_crypto_analysis" ELSE "stream_analysis"

\* the nodes a code path dispatches
NodesOf(f) == UNION {Range(Prog(f)[i].nodes) : i \in DOMAIN Prog(f)}

\* C15: for the same subject and node results, run_analysis dispatches the
\* nodes that stream_analysis dispatches, under the same dependency order
\* and the same stock/crypto branch decision, and returns the report text
\* that the stream delivers.
C15_SameEngine ==
    \A h \in enabled :
        (flow[h] = "run_analysis" /\ st[h] = "finished" /\ err[h] = None) =>
            LET f == StreamPath(ticker[h]) IN
            /\ Dispatches(h) = NodesOf(f)
            /\ Dependents["run_analysis"] = Dependents[f]
            /\ response[h] = BuiltReport(f, locals[h])

\* what the code does: run_analysis agrees with the stock path of
\* stream_analysis, and takes it for every subject
RunAnalysisIsStockPath ==
    /\ NodesOf("run_analysis") = NodesOf("stream_analysis")
    /\ Dependents["run_analysis"] = Dependents["stream_analysis"]
    /\ \A h \in enabled :
          (flow[h] = "run_analysis" /\ st[h] = "finished" /\ err[h] = None) =>
              /\ Dispatches(h) = StockNodes
              /\ response[h] = BuiltReport("stream_analysis", locals[h])

----------------------------------------------------------------------------
(* Persistence.                                                            *)

\* the events of a stream that carry a failure message
FailureChunks(h) ==
    {i \in DOMAIN events[h] :
        \E x \in Range(events[h][i].content) : x.t = "error"}

\* C16: a save that fails, or a store that is disconnected, never fails a
\* run: no failure fragment is emitted, the cache is updated with the run
\* (streaming), and the sentinel or the non-streaming report is delivered.
C16_PersistenceNeverFailsRun ==
    \A h \in enabled :
        saved[h] \in {"failed", "skipped"} =>
            /\ err[h] = None /\ st[h] = "finished"
            /\ FailureChunks(h) = {}
            /\ flow[h] \in SavingStreams =>
                  /\ session_context = EntryOf(h)
                  /\ events[h][Len(events[h])] = format_sse_done
                  /\ Sentinels(h) = {Len(events[h])}
            /\ flow[h] = "run_analysis" =>
                  /\ response[h] = report[h]
                  /\ response[h] = BuiltReport("stream_analysis", locals[h])

\* a crypto run that followed a successful run has succeeded, and its
\* insert has failed
C16_Witness ==
    \E h \in enabled :
        /\ saved[h] = "failed" /\ st[h] = "finished"
        /\ flow[h] = "stream_crypto_analysis"
        /\ before[h].last.kind = "saved"

----------------------------------------------------------------------------
(* The choice of the path.                                                 *)

\* the nodes of the crypto path of the graph, and those of its stock path
GraphCryptoPath == {"crypto_analyst", "crypto_enrichment", "crypto_report"}
GraphStockPath == GraphNodes \ GraphCryptoPath

\* C17: exactly one path is chosen per run of the graph: the branch
\* predicate is evaluated once, at the start of the run, one entry node is
\* started, and the nodes that execute are all stock nodes or all crypto
\* nodes.
C17_OnePathPerRun ==
    app.status # "none" =>
        /\ Cardinality(app.routed) = 1
        /\ app.n = 1 /\ app.executed = {} /\ app.status = "running" =>
              Cardinality(app.active) = 1
        /\ \/ app.executed \subseteq GraphStockPath
           \/ app.executed \subseteq GraphCryptoPath

\* what the graph does: both entry branches of graph.py are kept, so
\* route_start and route_start_v2 each read is_crypto at the start of a
\* run; a stock run starts two entry nodes, a crypto run one; the nodes
\* of a run are of one class
GraphRoutesTwice ==
    app.status # "none" =>
        /\ app.routed = {"route_start", "route_start_v2"}
        /\ app.executed \subseteq
              (IF app.is_crypto THEN GraphCryptoPath ELSE GraphStockPath)

\* what the streaming handler does: is_crypto is evaluated in one place,
\* before the first yield, and the nodes of the run are those of the path
\* it selects
StreamChoosesOnePath ==
    \A h \in enabled :
        flow[h] \in SavingStreams =>
            /\ flow[h] = StreamPath(ticker[h])
            /\ Dispatches(h) \subseteq NodesOf(flow[h])

----------------------------------------------------------------------------
(* Invocations of a node body.                                             *)

\* C18: no node body is invoked a second time in a run, of a handler or
\* of the compiled graph, also after a failure.
C18_NodeBodyAtMostOnce ==
    /\ \A h \in Handlers, n \in Nodes : task[h][n].c <= 1
    /\ \A fn \in GraphFns : app.calls[fn] <= 1

\* what the handlers do: every agent is submitted to the executor at most
\* once per request, the one that raised included
HandlersDispatchOnce ==
    \A h \in Handlers, n \in Nodes :
        /\ task[h][n].c <= 1
        /\ task[h][n].s = "failed" => task[h][n].c = 1

\* what the graph does: in a stock run the entry node market_analyst and
\* the gather of run_analysts_parallel both call analyze_market; no other
\* function is called twice
GraphCallsMarketAnalystTwice ==
    \A fn \in GraphFns :
        /\ app.calls[fn] <= (IF fn = "analyze_market" THEN 2 ELSE 1)
        /\ app.calls[fn] = 2 => ~app.is_crypto

----------------------------------------------------------------------------
(* What leaves the cache alone.                                            *)

\* C19: a failed run never modifies the cache: from the failure of a node
\* on, and after the run, the cache entry (subject, report text, extracts)
\* is the one the run found.
C19_FailedRunKeepsCache ==
    \A h \in enabled :
        (run[h] > 0 /\ err[h] # None) =>
            /\ session_context = before[h].entry
            /\ saved[h] = "none"

\* a stock run has failed in its last agent call and has ended; the cache
\* holds the entry of the successful run before it
C19_Witness ==
    \E h \in enabled :
        /\ flow[h] = "stream_analysis" /\ st[h] = "finished"
        /\ task[h]["portfolio_manager"].s = "failed"
        /\ before[h].last.kind = "saved"
        /\ Truthy(session_context.last_ticker)
        /\ session_context.last_ticker # ticker[h]

\* C20: the follow-up path only reads the cache: while a request without
\* subject is handled, and after it, whether its task succeeded or failed,
\* every field of the cache entry is as the request found it.
C20_FollowUpReadOnly ==
    \A h \in enabled :
        flow[h] = "stream_followup_chat" =>
            /\ session_context = before[h].entry
            /\ saved[h] = "none"

\* the third request, a follow-up, has ended after its chat task failed
C20_Witness ==
    \E h \in enabled :
        /\ flow[h] = "stream_followup_chat" /\ st[h] = "finished"
        /\ task[h]["chat_agent"].s = "failed"
        /\ before[h].last.kind = "other" /\ before[h].last.k = 2
        /\ cache_nonempty

----------------------------------------------------------------------------
(* Cancellation.                                                           *)

Cancelled(h) == st[h] = "cancelled"

\* a step that cancels the stream of h, or that follows its cancellation,
\* delivers no event of it and aborts no task: a task that is running
\* keeps running or ends
QuietStep(h) ==
    (Cancelled(h) \/ st'[h] = "cancelled") =>
        /\ events'[h] = events[h]
        /\ response'[h] = response[h]
        /\ \A n \in Nodes :
              IF task[h][n].s = "running"
              THEN task'[h][n].s \in {"running", "late"}
              ELSE task'[h][n] = task[h][n]

----------------------------------------------------------------------------
(* Functions called on their own.                                          *)
(* The variable call holds one call of a function of the program: the     *)
(* name of the function, its arguments and its local variables.  The      *)
(* handlers and the graph are idle meanwhile.                              *)

idle == <<workflow, app, nruns, session_context, mongo_connected, enabled,
          last_finished, hvars, pool>>

TicksPerSecond == 2   \* clock readings told apart within one second
MaxTicks == 5         \* clock readings of one stream
MaxEnvelopes == 3     \* envelopes of one stream

\* f"chatcmpl-{datetime.now().strftime('%Y%m%d%H%M%S')}": the clock cut
\* to whole seconds
envelope_id(now) == now \div TicksPerSecond

\* a generator that yields envelopes while the clock advances
StreamCall == [fn |-> "stream", now |-> 0, out |-> <<>>]

\* time passes between two yields
tick ==
    /\ call.fn = "stream" /\ call.now < MaxTicks
    /\ call' = [call EXCEPT !.now = @ + 1]
    /\ UNCHANGED idle

\* yield format_sse_chunk(..) (finish = FALSE) or yield format_sse_done()
\* (finish = TRUE), which ends the stream
emit(finish) ==
    /\ call.fn = "stream" /\ Len(call.out) < MaxEnvelopes
    /\ \A i \in DOMAIN call.out : ~call.out[i].finish
    /\ call' = [call EXCEPT !.out =
                  Append(@, [id |-> envelope_id(call.now), at |-> call.now,
                             finish |-> finish])]
    /\ UNCHANGED idle

\* chat_completions up to the choice of the handler: the messages of the
\* request are searched from the last one for a message of role user
MaxMessages == 3
Roles == {"user", "assistant", "system"}
Contents == { <<"RISK", "AAPL">>, <<"BTC">>, <<"RISK">>, <<>> }
ChatMessages == [role : Roles, content : Contents]
Requests == UNION { [1..n -> ChatMessages] : n \in 0..MaxMessages }

\* the first message of role user from the start of the list
RECURSIVE first_user_message(_, _)
first_user_message(messages, i) ==
    IF i > Len(messages) THEN <<>>
    ELSE IF messages[i].role = "user" THEN messages[i].content
    ELSE first_user_message(messages, i + 1)

\* user_message = ""; for msg in reversed(messages): if msg.role == "user":
\* user_message = msg.content; break
RECURSIVE scan_reversed(_, _)
scan_reversed(messages, i) ==
    IF i = 0 THEN <<>>
    ELSE IF messages[i].role = "user" THEN messages[i].content
    ELSE scan_reversed(messages, i - 1)

\* the search from the first message on
forward_scan(messages) == first_user_message(messages, 1)

user_message(messages) == scan_reversed(messages, Len(messages))

RequestCalls ==
    { [fn |-> "chat_completions", pc |-> "called", messages |-> ms,
       user_message |-> <<>>, ticker |-> None, status |-> "none"] :
      ms \in Requests }

\* if not user_message: raise HTTPException(400); ticker =
\* extract_ticker(user_message); the handler is chosen from the two
read_request ==
    /\ call.fn = "chat_completions" /\ call.pc = "called"
    /\ LET um == user_message(call.messages) IN
       call' = [call EXCEPT !.pc = "returned", !.user_message = um,
                  !.status = IF um = <<>> THEN "400" ELSE "dispatched",
                  !.ticker = IF um = <<>> THEN None ELSE extract_ticker(um)]
    /\ UNCHANGED idle

\* A text of a model or of the code, as far as the agents look at it: the
\* white space before and after it, the length between, and which of the
\* words BUY and SELL it contains.  src "none" is Python's None.
MaxCore == 52   \* longest text between the white space
MaxPad == 1     \* white space on either side
min_response_length == 50
Verbs == {"BUY", "SELL"}
WordsLen(w) == (IF "BUY" \in w THEN 3 ELSE 0) + (IF "SELL" \in w THEN 4 ELSE 0)

NoResponse ==
    [src |-> "none", lead |-> 0, core |-> 0, trail |-> 0, words |-> {}]
\* "Error generating response."
ErrorText ==
    [src |-> "error", lead |-> 0, core |-> 26, trail |-> 0, words |-> {}]
\* the text of the except branch of RiskJudge.judge, which names HOLD only
FallbackText ==
    [src |-> "fallback", lead |-> 0, core |-> 409, trail |-> 1, words |-> {}]

LLMTexts ==
    { [src |-> "llm", lead |-> l, core |-> c, trail |-> t, words |-> w] :
      l \in 0..MaxPad, c \in 0..MaxCore, t \in 0..MaxPad,
      w \in SUBSET Verbs }

\* what the provider does with one request: it raises, or it returns a text
\* or None
Outcomes ==
    { [kind |-> "raise", text |-> NoResponse],
      [kind |-> "return", text |-> NoResponse] }
    \cup { [kind |-> "return", text |-> t] :
           t \in { x \in LLMTexts : x.core >= WordsLen(x.words) } }

TextLen(t) == t.lead + t.core + t.trail

\* BaseAgent.call_llm: except Exception ... return "Error generating
\* response."
call_llm(outcome) ==
    IF outcome.kind = "raise" THEN ErrorText ELSE outcome.text

\* not response or len(response) < 50, without the strip
too_short_unstripped(resp) ==
    \/ resp.src = "none"
    \/ TextLen(resp) = 0
    \/ TextLen(resp) < min_response_length

\* not response or len(response.strip()) < 50
too_short(resp) ==
    \/ resp.src = "none"
    \/ TextLen(resp) = 0
    \/ resp.core < min_response_length

\* decision = "HOLD"; BUY when the text names BUY and not SELL, SELL when it
\* names SELL and not BUY
extract_decision(text) ==
    IF "BUY" \in text.words /\ "SELL" \notin text.words THEN "BUY"
    ELSE IF "SELL" \in text.words /\ "BUY" \notin text.words THEN "SELL"
    ELSE "HOLD"

\* RiskJudge.judge from the call of the model on
judge(outcome) ==
    LET r == call_llm(outcome)
        verdict == IF too_short(r) THEN FallbackText ELSE r IN
    [raised |-> FALSE, decision |-> extract_decision(verdict),
     verdict |-> verdict]

\* MarketAnalyst.analyze from the call of the model on; report.upper() of
\* None raises AttributeError
analyze(outcome) ==
    LET rep == call_llm(outcome) IN
    IF rep.src = "none"
    THEN [raised |-> TRUE, decision |-> None, verdict |-> NoResponse]
    ELSE [raised |-> FALSE, decision |-> extract_decision(rep), verdict |-> rep]

NoResult == [raised |-> FALSE, decision |-> None, verdict |-> NoResponse]
AgentCalls ==
    { [fn |-> f, pc |-> "called", outcome |-> o, result |-> NoResult] :
      f \in {"judge", "analyze"}, o \in Outcomes }

agent_returns ==
    /\ call.fn \in {"judge", "analyze"} /\ call.pc = "called"
    /\ call' = [call EXCEPT !.pc = "returned",
                  !.result = IF call.fn = "judge" THEN judge(call.outcome)
                             ELSE analyze(call.outcome)]
    /\ UNCHANGED idle

\* The delivery loop of a text: for i in range(0, len(text), chunk_size):
\* yield text[i:i+chunk_size].  A text is its positions 1..L.
MaxTextLen == 1001
DeliverCalls ==
    { [fn |-> "deliver", text |-> [i \in 1..L |-> i], size |-> z, i |-> 0,
       out |-> <<>>] :
      L \in 0..MaxTextLen, z \in {report_chunk_size, followup_chunk_size} }

deliver_chunk ==
    /\ call.fn = "deliver" /\ call.i < Len(call.text)
    /\ call' = [call EXCEPT
                  !.out = Append(@, report_slice(call.text, call.i, call.size)),
                  !.i = @ + call.size]
    /\ UNCHANGED idle

\* The aggregation steps of graph.py, next to those of the request handler.
\* a report of the graph that has a section for the risk judgment
build_report_node_with_judgment(state) ==
    << Tok("title", state["ticker"].k, state["ticker"].n),
       Tok("date", state["ticker"].k, ""),
       Tok("verdict_line", Decision(state["final_decision"]).k,
           Decision(state["final_decision"]).n),
       Sep, Section(state["market_data"]),
       Sep, Section(state["fundamentals_data"]),
       Sep, Section(state["news_data"]),
       Sep, Section(state["social_data"]),
       Sep, Section(state["risk_data"]),
       Sep, Section(state["bull_analysis"]),
       Sep, Section(state["bear_analysis"]),
       Sep, Section(state["debate_outcome"]),
       Sep, Section(state["risk_judgment"]),
       Sep, Section(state["final_decision"]),
       Sep, Fixed("disclaimer_title"), Fixed("disclaimer") >>

\* graph.py build_report_node: the list sections, from the state
build_report_node(state) ==
    << Tok("title", state["ticker"].k, state["ticker"].n),
       Tok("date", state["ticker"].k, ""),
       Tok("verdict_line", Decision(state["final_decision"]).k,
           Decision(state["final_decision"]).n),
       Sep, Section(state["market_data"]),
       Sep, Section(state["fundamentals_data"]),
       Sep, Section(state["news_data"]),
       Sep, Section(state["social_data"]),
       Sep, Section(state["risk_data"]),
       Sep, Section(state["bull_analysis"]),
       Sep, Section(state["bear_analysis"]),
       Sep, Section(state["debate_outcome"]),
       Sep, Section(state["final_decision"]),
       Sep, Fixed("disclaimer_title"), Fixed("disclaimer") >>

\* graph.py build_crypto_report_node: the list sections, from the state
build_crypto_report_node(state) ==
    << Tok("crypto_title", state["ticker"].k, state["ticker"].n),
       Tok("date", state["ticker"].k, ""),
       Tok("signal_line", Sentiment(state["crypto_data"]).k,
           Sentiment(state["crypto_data"]).n),
       Sep, Section(state["crypto_data"]),
       Sep, Section(state["news_data"]),
       Sep, Section(state["social_data"]),
       Sep, Fixed("disclaimer_title"), Fixed("crypto_warning"),
       Fixed("disclaimer") >>

\* the agent whose result a slot of the state holds
AgentOf(slot) ==
    CASE slot = "market_data" -> "market_analyst"
      [] slot = "fundamentals_data" -> "fundamentals_analyst"
      [] slot = "news_data" -> "news_analyst"
      [] slot = "social_data" -> "social_analyst"
      [] slot = "risk_data" -> "risk_analyst"
      [] slot = "crypto_data" -> "crypto_analyst"
      [] slot = "bull_analysis" -> "bull_researcher"
      [] slot = "bear_analysis" -> "bear_researcher"
      [] slot = "debate_outcome" -> "debate_moderator"
      [] slot = "risk_judgment" -> "risk_judge"
      [] slot = "final_decision" -> "portfolio_manager"

\* the slots the stock aggregation and the crypto aggregation read
StockResultSlots ==
    {"market_data", "fundamentals_data", "news_data", "social_data",
     "risk_data", "bull_analysis", "bear_analysis", "debate_outcome",
     "final_decision"}
CryptoResultSlots == {"crypto_data", "news_data", "social_data"}

\* a state the aggregation is called with: the result of a slot in full is
\* the dict of its agent with the keys the aggregation reads, any other
\* result is a dict without them
AggregationState(tk, full) ==
    [slot \in StockResultSlots \cup CryptoResultSlots \cup
              {"risk_judgment", "ticker"} |->
        IF slot = "ticker" THEN Tok("ticker", 1, tk)
        ELSE IF slot \in full THEN Result(1, AgentOf(slot))
        ELSE NoneTok]

NoReport == [raised |-> FALSE, sections |-> <<>>]
AggregateCall(c, b, x) ==
    [fn |-> "aggregate", pc |-> "called", crypto |-> c, importable |-> b,
     state |-> x, node |-> NoReport, handler |-> <<>>]

AggregateCalls ==
    { AggregateCall(FALSE, b, AggregationState("AAPL", full)) :
      b \in BOOLEAN, full \in SUBSET StockResultSlots }
    \cup { AggregateCall(TRUE, b, AggregationState("BTC-USD", full)) :
           b \in BOOLEAN, full \in SUBSET CryptoResultSlots }

\* the node of the graph and the function of the handler are applied to
\* the same results.  build_report_node starts with "from
\* backend.api.openai_server import build_report", which raises where the
\* package backend cannot be imported.
aggregate ==
    /\ call.fn = "aggregate" /\ call.pc = "called"
    /\ LET x == call.state IN
       call' = [call EXCEPT
          !.pc = "returned",
          !.node =
             IF call.crypto
             THEN [raised |-> FALSE, sections |-> build_crypto_report_node(x)]
             ELSE IF call.importable
             THEN [raised |-> FALSE, sections |-> build_report_node(x)]
             ELSE [raised |-> TRUE, sections |-> <<>>],
          !.handler =
             IF call.crypto
             THEN build_crypto_report(x["ticker"], x["crypto_data"],
                                      x["news_data"], x["social_data"])
             ELSE build_report(x["ticker"], Decision(x["final_decision"]),
                      x["market_data"], x["fundamentals_data"],
                      x["news_data"], x["social_data"], x["risk_data"],
                      x["bull_analysis"], x["bear_analysis"],
                      x["debate_outcome"], x["final_decision"])]
    /\ UNCHANGED idle

CallInputs == {StreamCall} \cup RequestCalls \cup AgentCalls \cup DeliverCalls
              \cup AggregateCalls

\* one function is called with one of its inputs
invoke(c) ==
    /\ call = NoCall
    /\ call' = c
    /\ UNCHANGED idle

InitCalls ==
    /\ ServerStarted
    /\ enabled = {}
    /\ mongo_connected = FALSE
    /\ workflow = NotImported
    /\ app = NotRunning

NextCalls ==
    \/ \E c \in CallInputs : invoke(c)
    \/ tick
    \/ \E finish \in BOOLEAN : emit(finish)
    \/ read_request
    \/ agent_returns
    \/ deliver_chunk
    \/ aggregate

SpecCalls == InitCalls /\ [][NextCalls]_vars

----------------------------------------------------------------------------
(* Identifiers of the envelopes.                                           *)

\* C22: two envelopes of one stream never carry the same identifier, and
\* the identifiers grow in the order of emission, also when the envelopes
\* are emitted in quick succession.
C22_IdentifiersDistinct ==
    call.fn = "stream" =>
        \A i, j \in DOMAIN call.out :
            i < j => call.out[i].id < call.out[j].id

\* what the code gives: identifiers never decrease, and two envelopes share
\* one exactly when they are formatted within the same second
IdentifierIsTheSecond ==
    call.fn = "stream" =>
        \A i, j \in DOMAIN call.out :
            i < j =>
                /\ call.out[i].id <= call.out[j].id
                /\ (call.out[i].id = call.out[j].id) <=>
                   (call.out[i].at \div TicksPerSecond =
                    call.out[j].at \div TicksPerSecond)

SameSecondSameIdentifier ==
    /\ call.fn = "stream"
    /\ \E i, j \in DOMAIN call.out :
          /\ i < j
          /\ call.out[i].at # call.out[j].at
          /\ call.out[i].id = call.out[j].id

----------------------------------------------------------------------------
(* The message a request is routed by.                                     *)

ReadRequest == call.fn = "chat_completions" /\ call.pc = "returned"
UserIndexes == { i \in DOMAIN call.messages : call.messages[i].role = "user" }

\* C23: routing depends only on the last message of role user: the message
\* read and the subject are those of that message whatever precedes or
\* follows it, and a list without a message of role user is rejected
\* without a dispatch.
C23_LastUserMessageRoutes ==
    ReadRequest =>
        IF UserIndexes = {}
        THEN call.status = "400" /\ call.ticker = None
        ELSE LET last == CHOOSE i \in UserIndexes :
                            \A j \in UserIndexes : j <= i
                 m == call.messages[last].content IN
             /\ call.user_message = m
             /\ call.ticker = extract_ticker(m)
             /\ call.status = IF m = <<>> THEN "400" ELSE "dispatched"

\* an earlier user message about another subject and a later message of
\* another role, both ignored
C23_Witness ==
    /\ ReadRequest
    /\ Len(call.messages) = 3
    /\ call.messages[1] = [role |-> "user", content |-> <<"BTC">>]
    /\ call.messages[2] = [role |-> "user", content |-> <<"RISK", "AAPL">>]
    /\ call.messages[3] = [role |-> "assistant", content |-> <<"BTC">>]
    /\ call.ticker = "AAPL"
    /\ call.status = "dispatched"

----------------------------------------------------------------------------
(* A call of the model that raises.                                        *)

AgentReturned(f) == call.fn = f /\ call.pc = "returned"

\* C24: when the call of the model inside an analyst raises, the node
\* fails (and with it the run) instead of going on with a substitute
\* result.
C24_LLMFailureFailsNode ==
    (AgentReturned("analyze") /\ call.outcome.kind = "raise") =>
        call.result.raised

\* what the code gives: the analyst returns the text of call_llm's except
\* branch as its report, with the signal HOLD
LLMErrorBecomesReport ==
    (AgentReturned("analyze") /\ call.outcome.kind = "raise") =>
        /\ ~call.result.raised
        /\ call.result.verdict = ErrorText
        /\ call.result.decision = "HOLD"

\* the analyst does fail when the provider returns None
AnalystFailsOnNone ==
    (AgentReturned("analyze") /\ call.outcome.kind = "return") =>
        (call.result.raised <=> call.outcome.text.src = "none")

----------------------------------------------------------------------------
(* The fallback of the risk judge.                                         *)

Unusable(o) ==
    \/ o.kind = "raise"
    \/ o.text.src = "none"
    \/ o.text.lead + o.text.core + o.text.trail = 0
    \/ o.text.core < min_response_length

\* C29: RiskJudge.judge returns the fixed fallback verdict with the
\* decision HOLD when the call of the model raises or its response is
\* empty or shorter than 50 characters after stripping, and never raises
\* for that reason; any other response is the verdict.
C29_JudgeFallsBack ==
    AgentReturned("judge") =>
        /\ ~call.result.raised
        /\ Unusable(call.outcome) =>
              /\ call.result.verdict = FallbackText
              /\ call.result.decision = "HOLD"
        /\ ~Unusable(call.outcome) =>
              call.result.verdict = call.outcome.text

\* a response of 49 characters between white space that names BUY: 51
\* characters before stripping
C29_Witness ==
    /\ AgentReturned("judge")
    /\ call.outcome.kind = "return"
    /\ call.outcome.text.core = min_response_length - 1
    /\ call.outcome.text.lead = 1 /\ call.outcome.text.trail = 1
    /\ call.outcome.text.words = {"BUY"}
    /\ call.result.verdict = FallbackText
    /\ call.result.decision = "HOLD"

JudgeFallsBackWhenCallRaises ==
    (AgentReturned("judge") /\ call.outcome.kind = "raise") =>
        call.result.verdict = FallbackText

----------------------------------------------------------------------------
(* Delivery in chunks.                                                     *)

RECURSIVE Concat(_)
Concat(ss) == IF ss = <<>> THEN <<>> ELSE Head(ss) \o Concat(Tail(ss))

\* C30: the fragments of a delivery are each at most the chunk size long
\* and, concatenated in the order of delivery, are the text up to the
\* offset reached: the whole text once the loop has ended, for every
\* length, zero and the multiples of the chunk size included.
C30_ChunksLoseNothing ==
    call.fn = "deliver" =>
        /\ \A k \in DOMAIN call.out :
              Len(call.out[k]) >= 1 /\ Len(call.out[k]) <= call.size
        /\ Concat(call.out) =
              SubSeq(call.text, 1, Min(call.i, Len(call.text)))
        /\ call.i >= Len(call.text) => Concat(call.out) = call.text

\* a text of exactly two chunks, delivered
C30_Witness ==
    /\ call.fn = "deliver"
    /\ Len(call.text) = 2 * call.size
    /\ call.i >= Len(call.text)
    /\ Len(call.out) = 2

EmptyTextNoChunk ==
    (call.fn = "deliver" /\ call.text = <<>>) => call.out = <<>>

----------------------------------------------------------------------------
(* What a node reads is there when it is dispatched.                       *)

\* the variables of the handler the portfolio manager and the moderator
\* are called with
ManagerReads == Range(FanOutVars) \cup
    {"bull_result", "bear_result", "decision", "risk_judgment"}
ModeratorReads == {"bull_result", "bear_result"}

\* the variable holds a result of the current run
Populated(h, v) == locals[h][v] # NoneTok /\ locals[h][v].k = run[h]

\* the step submits node n of handler h to the executor
DispatchStep(h, n) == task'[h][n].c > task[h][n].c

GraphNeverDispatchesManager ==
    {"portfolio_manager", "debate_moderator"} \cap
        (app.active \cup app.executed) = {}

----------------------------------------------------------------------------
(* The risk chain.                                                         *)

\* node n of handler h has returned and its result is in variable v, which
\* the call being submitted passes on
Receives(h, n, v) ==
    /\ task[h][n].s = "done"
    /\ Populated(h, v)
    /\ v \in Range(Cur(h).args)

\* C26: the risk chain runs in strict order, each node consuming what the
\* previous ones produced: the conservative debator is dispatched after
\* the risky one has returned and is given its result, the neutral one
\* after both and is given both, the judge after all three.
C26_RiskChainInOrder ==
    [][\A h \in Handlers :
          /\ DispatchStep(h, "risky_debator") =>
                \A n \in {"conservative_debator", "neutral_debator",
                          "risk_judge"} : task[h][n].s = "idle"
          /\ DispatchStep(h, "conservative_debator") =>
                /\ Receives(h, "risky_debator", "risky_result")
                /\ \A n \in {"neutral_debator", "risk_judge"} :
                      task[h][n].s = "idle"
          /\ DispatchStep(h, "neutral_debator") =>
                /\ Receives(h, "risky_debator", "risky_result")
                /\ Receives(h, "conservative_debator", "conservative_result")
                /\ task[h]["risk_judge"].s = "idle"
          /\ DispatchStep(h, "risk_judge") =>
                /\ Receives(h, "risky_debator", "risky_result")
                /\ Receives(h, "conservative_debator", "conservative_result")
                /\ Receives(h, "neutral_debator", "neutral_result")]_vars

\* the judge runs after the three debators have returned
C26_Witness ==
    \E h \in Handlers :
        /\ task[h]["risk_judge"].s = "running"
        /\ \A n \in Range(RiskChain) : task[h][n].s = "done"
        /\ \A v \in {"risky_result", "conservative_result", "neutral_result"} :
              Populated(h, v)

----------------------------------------------------------------------------
(* Writers of a slot within one run of the graph.                          *)

\* the nodes that returned a value for the slot in the current run
WritersOf(slot) == { n \in app.executed : slot \in Writes(FnOf(n)) }

\* C27: within one run every slot of the state is written at most once:
\* it is absent or holds the output of the single node that produces it.
C27_SlotWrittenOnce ==
    app.status # "none" =>
        \A slot \in Slots : Cardinality(WritersOf(slot)) <= 1

\* what the code gives: in a stock run the node market_analyst and the
\* node run_analysts_parallel both return market_data in the first step
MarketDataWrittenTwice ==
    (app.status = "error" /\ app.error = "InvalidUpdateError") =>
        WritersOf("market_data") = {"market_analyst", "run_analysts_parallel"}

\* a crypto run writes every slot once
CryptoRunWritesOnce ==
    (app.status # "none" /\ app.is_crypto) =>
        \A slot \in Slots : Cardinality(WritersOf(slot)) <= 1

----------------------------------------------------------------------------
(* The fragments in the report of a stock run.                             *)

\* the positions of the report of handler h that hold the fragment of node
\* n of the current run
Occurrences(h, n) ==
    { i \in DOMAIN report[h] : report[h][i] = Frag(run[h], n) }

ReportBuilt(h) ==
    flow[h] \in {"stream_analysis", "run_analysis"} /\ report[h] # <<>>

\* C28: the report of a stock run holds the report fragment of every node
\* that executed in the run exactly once, those of the three debators of
\* the risk chain and of the judge included.
C28_EveryFragmentOnce ==
    \A h \in Handlers :
        ReportBuilt(h) =>
            \A n \in StockNodes :
                task[h][n].s = "done" => Cardinality(Occurrences(h, n)) = 1

\* what the code gives: the nine fragments build_report is called with
\* appear once each, the four of the risk debate not at all
FragmentsOfLayoutOnce ==
    \A h \in Handlers :
        ReportBuilt(h) =>
            \A n \in StockNodes :
                Cardinality(Occurrences(h, n)) =
                    IF n \in Range(StockLayout) THEN 1 ELSE 0

----------------------------------------------------------------------------
(* The parameters of the judge.                                            *)

\* def judge(self, ticker, risky_result, neutral_result,
\* conservative_result, trader_plan=""): the parameters after ticker, in
\* the order of the signature
judge_signature == <<"risky_result", "neutral_result", "conservative_result">>

\* the debator whose argument the prompt of the judge presents under the
\* parameter
SideOf(param) ==
    CASE param = "risky_result" -> "risky_debator"
      [] param = "neutral_result" -> "neutral_debator"
      [] param = "conservative_result" -> "conservative_debator"

\* the result the call in flight binds to the i-th parameter: the
\* arguments are passed by position
BoundTo(h, i) == locals[h][Cur(h).args[i]]

JudgeCalled(h) ==
    /\ flow[h] \in {"stream_analysis", "run_analysis"}
    /\ task[h]["risk_judge"].s = "running"

\* C35: the judge receives the result of each debator in the role of its
\* producer: what it judges as the risky, the neutral and the conservative
\* side is the result of the risky, the neutral and the conservative
\* debator.
C35_JudgeRolesMatch ==
    \A h \in Handlers :
        JudgeCalled(h) =>
            \A i \in DOMAIN judge_signature :
                BoundTo(h, i).n = SideOf(judge_signature[i])

\* what the code gives: the call sites pass risky, conservative, neutral
\* to the parameters risky, neutral, conservative, so the judge presents
\* the conservative argument as the neutral side and the neutral argument
\* as the conservative side
JudgeSwapsNeutralAndConservative ==
    \A h \in Handlers :
        JudgeCalled(h) =>
            /\ BoundTo(h, 1).n = "risky_debator"
            /\ BoundTo(h, 2).n = "conservative_debator"
            /\ BoundTo(h, 3).n = "neutral_debator"

----------------------------------------------------------------------------
(* Progress markers of a stock stream.                                     *)

\* the progress chunks of stream_analysis in the order of its text: the
\* opening line, a started and a completed marker for each of the five
\* phases (the completed marker of phase 5 is the verdict line), the rule
PhaseOrder ==
    << "start", "phase1", "phase1_done", "phase2", "phase2_done", "phase3",
       "phase3_done", "phase4", "phase4_done", "phase5", "verdict", "rule" >>

\* the nodes of the phase a completed marker closes
PhaseNodes(a) ==
    CASE a = "phase1_done" -> Range(FanOut)
      [] a = "phase2_done" -> {"bull_researcher", "bear_researcher"}
      [] a = "phase3_done" -> {"debate_moderator"}
      [] a = "phase4_done" -> Range(RiskChain) \cup {"risk_judge"}
      [] a = "verdict" -> {"portfolio_manager"}
      [] OTHER -> {}

\* the name of the progress marker an event carries, "" for any other event
MarkerOf(e) ==
    IF e.kind = "chunk" /\ Len(e.content) = 1
    THEN LET x == e.content[1] IN
         IF x.t \in {"start", "verdict"} THEN x.t
         ELSE IF x.t = "fixed" /\ x.n \in Range(PhaseOrder) THEN x.n
         ELSE ""
    ELSE ""

\* an event that carries a part of the report
IsFragment(e) ==
    e.kind = "chunk" /\ \E i \in DOMAIN e.content : e.content[i].t = "section"

\* C38: in a stock stream the progress markers are emitted in the order of
\* the phases 1 to 5, started before completed before the next started; a
\* completed marker is emitted only after every node of its phase has
\* completed; every progress marker precedes the first report fragment.
C38_MarkersInPhaseOrder ==
    \A h \in Handlers :
        flow[h] = "stream_analysis" =>
            \A i \in DOMAIN events[h] :
                /\ MarkerOf(events[h][i]) # "" =>
                      /\ i \in DOMAIN PhaseOrder
                      /\ MarkerOf(events[h][i]) = PhaseOrder[i]
                      /\ \A n \in PhaseNodes(PhaseOrder[i]) :
                            task[h][n].s = "done"
                /\ IsFragment(events[h][i]) => i > Len(PhaseOrder)

\* the whole stream of a successful stock run: twelve markers, the report,
\* the sentinel
C38_Witness ==
    \E h \in Handlers :
        /\ flow[h] = "stream_analysis" /\ st[h] = "finished" /\ err[h] = None
        /\ Len(events[h]) = Len(PhaseOrder) + 2
        /\ \A i \in DOMAIN PhaseOrder : MarkerOf(events[h][i]) = PhaseOrder[i]
        /\ IsFragment(events[h][Len(PhaseOrder) + 1])

----------------------------------------------------------------------------
(* The two implementations of the aggregation step.                        *)

\* C39: for the same node results the aggregation node of the graph
\* yields the section sequence of the aggregation function of the handler:
\* build_report_node that of build_report, build_crypto_report_node that of
\* build_crypto_report.
C39_AggregationsAgree ==
    (call.fn = "aggregate" /\ call.pc = "returned") =>
        /\ ~call.node.raised => call.node.sections = call.handler
        /\ call.node.raised => (~call.crypto /\ ~call.importable)

\* a stock aggregation in which the debate outcome has no report section
C39_Witness ==
    /\ call.fn = "aggregate" /\ call.pc = "returned"
    /\ ~call.crypto /\ ~call.node.raised
    /\ call.state["debate_outcome"] = NoneTok
    /\ call.state["final_decision"] # NoneTok
    /\ call.node.sections = call.handler
    /\ Len(call.handler) = 24

\* the crypto aggregation agrees as well
CryptoAggregationAgrees ==
    (call.fn = "aggregate" /\ call.pc = "returned" /\ call.crypto) =>
        /\ ~call.node.raised
        /\ call.node.sections = call.handler
        /\ Len(call.handler) = 13

----------------------------------------------------------------------------
(* The three fields of the cache.                                          *)

\* the fields of cache c are all unset, or all come from one run: the
\* subject of the data is last_ticker, and the report and every extract
\* were produced by the run that produced the data
OneRun(c) ==
    \/ c = EmptyCache
    \/ /\ "ticker" \in DOMAIN c.last_analysis_data
       /\ LET d == c.last_analysis_data
              k == d["ticker"].k IN
          /\ k > 0
          /\ d["ticker"].n = c.last_ticker
          /\ c.last_report # <<>>
          /\ c.last_report[1].k = k
          /\ OnlyFrom(k, Range(c.last_report))
          /\ OnlyFrom(k, {d[key] : key \in DOMAIN d})

\* C32: in every state, under any interleaving of concurrent runs, the
\* three fields of the cache come from the same run or are all unset, and
\* so does the cache every request found when it started.
C32_CacheFieldsFromOneRun ==
    /\ OneRun(session_context)
    /\ \A h \in Handlers : OneRun(before[h].entry)

\* two overlapping runs for different subjects have both written the cache
C32_Witness ==
    \E h \in Handlers, g \in Handlers :
        /\ Overlap(h, g) /\ Succeeded(h) /\ Succeeded(g)
        /\ ticker[h] # ticker[g]
        /\ session_context.last_ticker = ticker[h]
        /\ session_context.last_analysis_data["ticker"].k = run[h]
        /\ session_context.last_report = report[h]

----------------------------------------------------------------------------
(* Isolation of concurrent runs.                                           *)

\* what handler h holds of its run
HandlerState(h) ==
    <<flow[h], pc[h], st[h], req[h], ticker[h], run[h], task[h], done_seq[h],
      err[h], locals[h], report[h], cursor[h], prompt[h], events[h],
      response[h], ctx[h], saved[h]>>

\* the results and the report of an analysis run of h were produced for
\* that run and its subject
OwnResults(h) ==
    flow[h] \in SavingStreams =>
        /\ \A v \in LocalVars : locals[h][v].k \in {0, run[h]}
        /\ locals[h]["ticker"] = Tok("ticker", run[h], ticker[h])
        /\ OnlyFrom(run[h], Range(report[h]))
        /\ report[h] # <<>> =>
              /\ report[h][1].k = run[h] /\ report[h][1].n = ticker[h]
              /\ \A n \in Nodes :
                    Cardinality(Occurrences(h, n)) > 0 => task[h][n].s = "done"

\* C36: concurrent runs are isolated: under any interleaving of two runs
\* the report of each is built only from results produced for that run and
\* its subject, and no step changes what two handlers hold: a run reaches
\* another request through the cache only.
C36_RunsIsolated ==
    /\ [](\A h \in Handlers : OwnResults(h))
    /\ [][Cardinality({h \in Handlers :
                          HandlerState(h)' # HandlerState(h)}) <= 1]_vars

\* a stock run and a crypto run, both with their report built, neither
\* finished
C36_Witness ==
    \E h \in Handlers, g \in Handlers :
        /\ flow[h] = "stream_analysis" /\ flow[g] = "stream_crypto_analysis"
        /\ st[h] = "ready" /\ st[g] = "ready"
        /\ report[h] # <<>> /\ report[g] # <<>>
        /\ ticker[h] # ticker[g]

----------------------------------------------------------------------------
(* The snapshot of a follow-up.                                            *)

\* the data of the cache that the follow-up of h found when it started
Snapshot(h) == before[h].entry.last_analysis_data

\* C33: a follow-up answer rests on one snapshot of the cache taken when
\* the follow-up starts: the subject named in its first event and the
\* context given to its task are those of the run that had written the
\* cache then, also when a concurrent run overwrites the cache meanwhile.
C33_FollowUpUsesSnapshot ==
    \A h \in Handlers :
        flow[h] = "stream_followup_chat" =>
            /\ OneRun(before[h].entry)
            /\ ctx[h] = Snapshot(h)
            /\ events[h] # <<>> =>
                  events[h][1] = format_sse_chunk(
                      << Tok("followup_intro", Snapshot(h)["ticker"].k,
                             Snapshot(h)["ticker"].n) >>)
            /\ prompt[h] # <<>> =>
                  /\ prompt[h] = system_prompt(Snapshot(h))
                  /\ OnlyFrom(Snapshot(h)["ticker"].k, Range(prompt[h]))

\* the cache was overwritten by a run for another subject after the
\* follow-up had named its subject and before it built its prompt
C33_Witness ==
    \E h \in Handlers :
        /\ flow[h] = "stream_followup_chat"
        /\ task[h]["chat_agent"].s = "running"
        /\ session_context.last_ticker # before[h].entry.last_ticker
        /\ session_context.last_analysis_data # ctx[h]
        /\ prompt[h] = system_prompt(ctx[h])

\* the report fragments delivered to the consumer of h make up the report
Fragments(h) == SelectSeq(events[h], IsFragment)

FullyDelivered(h) ==
    /\ report[h] # <<>> /\ cursor[h] >= Len(report[h])
    /\ Concat([i \in 1..Len(Fragments(h)) |-> Fragments(h)[i].content])
          = report[h]

\* the cache holds the entry that the run of h writes
WroteCache(h) ==
    /\ "ticker" \in DOMAIN session_context.last_analysis_data
    /\ session_context.last_analysis_data["ticker"].k = run[h]

SentinelDelivered(h) ==
    events[h] # <<>> /\ events[h][Len(events[h])] = format_sse_done

\* C34: a streaming analysis saves and updates the cache only after the
\* last report fragment was delivered, and emits the sentinel after both;
\* when the consumer stops reading, nothing is saved, the cache stays as
\* it was when the request came in and no further node is dispatched,
\* also when every node had completed.
C34_SaveAfterLastFragment ==
    /\ [](\A h \in Handlers : flow[h] \in SavingStreams =>
            /\ saved[h] # "none" => FullyDelivered(h)
            /\ WroteCache(h) => saved[h] # "none" /\ FullyDelivered(h)
            /\ SentinelDelivered(h) /\ err[h] = None =>
                  /\ saved[h] # "none" /\ WroteCache(h)
                  /\ session_context = Store(before[h].entry, EntryOf(h))
            /\ Cancelled(h) =>
                  /\ saved[h] = "none" /\ ~WroteCache(h)
                  /\ session_context = before[h].entry
                  /\ ~SentinelDelivered(h))
    /\ [][\A h \in Handlers : Cancelled(h) =>
            /\ saved'[h] = saved[h]
            /\ session_context' = session_context
            /\ \A n \in Nodes : ~DispatchStep(h, n)]_vars

\* the consumer stopped reading when every node had completed and the
\* report was ready, before its first fragment
C34_Witness ==
    \E h \in Handlers :
        /\ Cancelled(h) /\ flow[h] = "stream_analysis"
        /\ Cur(h).op = "chunks" /\ cursor[h] = 0
        /\ \A n \in NodesOf("stream_analysis") : task[h][n].s = "done"
        /\ saved[h] = "none" /\ mongo_connected

\* a run that is read to its end saves after its last fragment
SavedAfterDelivery ==
    \E h \in Handlers :
        /\ flow[h] = "stream_crypto_analysis" /\ SentinelDelivered(h)
        /\ saved[h] = "stored" /\ WroteCache(h) /\ FullyDelivered(h)

\* the tasks that were submitted and have not ended, by the place they are
Queued == Range(pool.queue)
Running == pool.active

\* C31: in every run, the node bodies are executed on the worker pool of
\* capacity 10 and never on the coordinating flow of control.
C31_NodeBodiesOnPool ==
    \A n \in app.executed : RunsOn(FnOf(n)) = "executor"

\* the handlers of the server: at most max_workers node bodies run at a
\* time, a task waits only while every worker thread is busy, and every
\* task of a handler that has not ended is on the executor
HandlersUseBoundedPool ==
    /\ Cardinality(Running) <= max_workers
    /\ Queued # {} => Cardinality(Running) = max_workers
    /\ Queued \cap Running = {}
    /\ \A h \in Handlers, n \in Nodes :
          task[h][n].s = "running" => WorkItem(h, n) \in Queued \cup Running

\* ten node bodies run and three more wait in the queue
PoolExhausted ==
    /\ Cardinality(Running) = max_workers
    /\ Len(pool.queue) = 3

\* C37: when every node body comes to an end and the consumer keeps
\* reading, every streaming run ends with its sentinel, also when its
\* tasks had to wait in the queue of the executor.
C37_EveryRunEmitsSentinel ==
    \A h \in Handlers :
        (st[h] \in {"ready", "waiting"}) ~>
            (st[h] = "finished" /\ SentinelDelivered(h))

\* a run awaits a task that waits in the queue while all ten worker
\* threads run tasks of this and of earlier runs
C37_Witness ==
    \E h \in Handlers, n \in Nodes :
        /\ Awaited(h, n) /\ WorkItem(h, n) \in Queued
        /\ Cardinality(Running) = max_workers
        /\ \E item \in Running : item.h # h
        /\ \E item \in Running : item.h = h /\ item.k # run[h]

====
